---- MODULE Spec2Model ----
(***************************************************************************)
(* TryGo (rhysd/trygo): translation of one package.                        *)
(*                                                                         *)
(*   phase 1  try() call elimination       (try_elim.go)                   *)
(*   type check after phase 1              (typeCheck)                     *)
(*   phase 2  nil check insertion          (nil_check.go)                  *)
(*                                                                         *)
(* The AST is modelled as a heap of statement lists: every statement-list  *)
(* owning node (BlockStmt, CaseClause, CommClause) is a block id, every    *)
(* statement is a record with a node identity `id`.                        *)
(***************************************************************************)
EXTENDS Integers, Sequences, FiniteSets, TLC

\* ------------------------------------------------------------- bounds
\* statements of a generated function (leaf statements, both blocks together)
MaxStmts == 3
\* fields of a generated result list
MaxFields == 3
\* names grouped under one type in a result field
MaxNames == 3
\* packages of a batch handed to Translate
MaxPkgs == 3
\* files of a package
MaxFiles == 2
\* import specs of a file
MaxImports == 2
\* elements of a directory path handed to outDirPath
MaxDepth == 3

\* ------------------------------------------------------------- helpers
Digit == <<"0", "1", "2", "3", "4", "5", "6", "7", "8", "9">>

RECURSIVE Itoa(_)
Itoa(n) == IF n < 10 THEN Digit[n + 1] ELSE Itoa(n \div 10) \o Digit[(n % 10) + 1]

Last(s) == s[Len(s)]

Front(s) == SubSeq(s, 1, Len(s) - 1)

\* s with element i (1-based) replaced by e
ReplaceAt(s, i, e) == [s EXCEPT ![i] = e]

Range(s) == {s[i] : i \in 1..Len(s)}

\* ------------------------------------------------------------- AST
NilBlk == "nil"

\* The statement lists of the model: the body of the function and one nested block.
RootBlk == "b0"

ChildBlk == "b1"

BlockIds == {RootBlk, ChildBlk}

\* the declarations at file level stand in no block: tce.currentBlk is nil while the
\* walk visits them
FileLevel == NilBlk

\* the statement and declaration lists of the AST
ListIds == BlockIds \cup {FileLevel}

\* expressions
Call(name, args) == [op |-> "call", name |-> name, args |-> args]

Ident(name) == [op |-> "ident", name |-> name, args |-> <<>>]

NoExpr == [op |-> "none", name |-> "", args |-> <<>>]

\* *ast.ValueSpec, and the Lhs/Rhs of an *ast.AssignStmt
Binding(names, type, values) == [names |-> names, type |-> type, values |-> values]

\* statements: kind is the ast node type; tok the assignment token; specs the value
\* specs of a declaration, the one Lhs/Rhs pair of an assignment, the X of an
\* expression statement or the Init of an if statement; child the block of a compound
\* statement; cond and ret the condition and the returned expressions of a generated
\* `if cond != nil { return ret }`; results the Type.Results.List of the function
\* literal a statement holds.
Stmt(id, kind, tok, specs, child) ==
    [id |-> id, kind |-> kind, tok |-> tok, specs |-> specs, child |-> child,
     cond |-> "", ret |-> <<>>, results |-> <<>>]

\* The functions a try() argument may call, with their result types.
CalleeResults ==
    [g0 |-> <<>>,
     g1 |-> <<"error">>,
     g2 |-> <<"int", "error">>,
     g3 |-> <<"int", "int", "error">>,
     h1 |-> <<"int">>,
     h2 |-> <<"int", "int">>]

Callees == DOMAIN CalleeResults

TryOf(callee) == Call("try", <<Call(callee, <<>>)>>)

\* The statement forms of the generated programs.
LeafKinds == {"plain", "var1", "var2", "define", "assign", "toplevel", "compound", "compoundtry"}

TryKinds == {"var1", "define", "assign", "toplevel", "compoundtry"}

\* the statement of form k with node identity id and the expression e where a
\* try() call may stand
LeafWith(k, id, e) ==
    LET a == "a" \o Itoa(id)
        b == "b" \o Itoa(id)
    IN
    CASE k = "plain" -> Stmt(id, "ExprStmt", "", <<Binding(<<>>, "", <<Call("h", <<>>)>>)>>, NilBlk)
      [] k = "var1" -> Stmt(id, "DeclStmt", "var", <<Binding(<<a>>, "", <<e>>)>>, NilBlk)
      [] k = "var2" -> Stmt(id, "DeclStmt", "var",
                            <<Binding(<<a>>, "", <<e>>), Binding(<<b>>, "", <<e>>)>>,
                            NilBlk)
      [] k = "define" -> Stmt(id, "AssignStmt", ":=", <<Binding(<<a>>, "", <<e>>)>>, NilBlk)
      [] k = "assign" -> Stmt(id, "AssignStmt", "=", <<Binding(<<a>>, "", <<e>>)>>, NilBlk)
      [] k = "toplevel" -> Stmt(id, "ExprStmt", "", <<Binding(<<>>, "", <<e>>)>>, NilBlk)
      [] k = "compound" -> Stmt(id, "AssignStmt", "+=", <<Binding(<<a>>, "", <<Ident("e")>>)>>, NilBlk)
      [] k = "compoundtry" -> Stmt(id, "AssignStmt", "+=", <<Binding(<<a>>, "", <<e>>)>>, NilBlk)

\* the statement of form k with node identity id; c is the function called in try()
Leaf(k, id, c) == LeafWith(k, id, TryOf(c))

\* the callee that makes form k well typed after phase 1
DefaultCallee(k) == IF k = "toplevel" THEN "g1" ELSE "g2"

\* `if c { ... }`: a compound statement whose body is the nested block
Wrapper(id) == Stmt(id, "IfStmt", "", <<>>, ChildBlk)

\* `go func() results { ... }()`: a statement that calls a function literal whose
\* body is the nested block
LitWrapper(id, results) == [Stmt(id, "GoStmt", "", <<>>, ChildBlk) EXCEPT !.results = results]

\* result lists (ast.FieldList): a field groups its names under one type node
Field(n, type) == [names |-> [i \in 1..n |-> "r"], type |-> type]

ValueTypes == {"int", "S"}

\* result lists of at most MaxFields fields: unnamed ones and named ones whose
\* non-error fields group 1..MaxNames names; the last type is `error`, or the list
\* is one pass 1 rejects: no results at all, or a last result that is not `error`.
RECURSIVE FieldLists(_, _)
FieldLists(len, counts) ==
    IF len = 0 THEN {<<>>}
    ELSE {<<Field(n, t)>> \o r : n \in counts, t \in ValueTypes, r \in FieldLists(len - 1, counts)}

ResultLists ==
    UNION {{fl \o <<Field(0, "error")>> : fl \in FieldLists(l, {0})}
           \cup {fl \o <<Field(1, "error")>> : fl \in FieldLists(l, 1..MaxNames)}
           : l \in 0..(MaxFields - 1)}
    \cup {<<>>, <<Field(0, "int")>>}

DefaultResults == <<Field(0, "int"), Field(0, "error")>>

\* An input package: one function declaration with its result list and the
\* statement list of every block.
Program(results, root, child) ==
    [results |-> results,
     stmts |-> [b \in ListIds |-> IF b = RootBlk THEN root ELSE IF b = ChildBlk THEN child ELSE <<>>]]

\* the program with the declarations decls at file level, before the function
WithDecls(p, decls) == [p EXCEPT !.stmts[FileLevel] = decls]

\* programs of n leaf statements: the first k in the body of the function, the
\* others in the nested block, whose `if` follows the first p statements of the body
StructProgram(forms, k, p) ==
    LET n == Len(forms)
        leaf(i) == Leaf(forms[i], i, DefaultCallee(forms[i]))
        body == [i \in 1..k |-> leaf(i)]
        nested == [i \in 1..(n - k) |-> leaf(k + i)]
    IN Program(DefaultResults,
               SubSeq(body, 1, p) \o <<Wrapper(n + 1)>> \o SubSeq(body, p + 1, k),
               nested)

FlatProgram(forms) ==
    Program(DefaultResults,
            [i \in 1..Len(forms) |-> Leaf(forms[i], i, DefaultCallee(forms[i]))],
            <<>>)

StructInputs ==
    UNION {{FlatProgram(f) : f \in [1..n -> LeafKinds]}
           \cup {StructProgram(f, kp[1], kp[2]) : f \in [1..n -> LeafKinds],
                    kp \in {x \in (0..n) \X (0..n) : x[2] <= x[1]}}
           : n \in 0..MaxStmts}

\* one try() statement of every form, calling every callee, in a function of
\* every result list
SigInputs ==
    {Program(r, <<Leaf(k, 1, c)>>, <<>>) : r \in ResultLists, k \in TryKinds, c \in Callees}

\* calls of try that checkTryCall rejects whatever function encloses them: no
\* argument, two arguments, an argument that is no call
BadTries ==
    {Call("try", <<>>),
     Call("try", <<Call("g2", <<>>), Call("g2", <<>>)>>),
     Call("try", <<Ident("e")>>)}

\* a call of try in the arguments of a try() call, and in those of another call
NestedTries == {Call("try", <<Call("g2", <<TryOf("g1")>>)>>), Call("g2", <<TryOf("g2")>>)}

\* a well-formed `a1 := try(g2())`, then one statement of every form around every
\* such expression (in the second spec of a two-spec declaration after a
\* well-formed first spec); and the same expressions, and a well-formed try()
\* call, in a declaration at file level
ExprInputs ==
    LET first == Leaf("define", 1, "g2")
        second(k, e) ==
            IF k = "var2"
            THEN [Leaf("var2", 2, "g2") EXCEPT !.specs[2].values = <<e>>]
            ELSE LeafWith(k, 2, e)
    IN {Program(DefaultResults, <<first, second(k, e)>>, <<>>) :
           k \in TryKinds \cup {"var2"}, e \in BadTries \cup NestedTries}
       \cup {WithDecls(Program(DefaultResults, <<first>>, <<>>), <<LeafWith("var1", 2, e)>>) :
               e \in BadTries \cup NestedTries \cup {TryOf("g2"), Call("g1", <<>>)}}

\* a function literal in the body of the function, with its own result list: one
\* try() statement in the literal, one after it in the function, and at most one
\* before it
LitResults == {<<Field(0, "error")>>, <<Field(0, "S"), Field(0, "error")>>, <<Field(0, "int")>>, <<>>}

OuterResults == {DefaultResults, <<Field(0, "error")>>, <<Field(0, "int")>>}

LitForms == {"define", "toplevel", "var1"}

LitProgram(outer, lit, before, inner, after) ==
    LET head == IF before THEN <<Leaf("define", 1, "g2")>> ELSE <<>>
    IN Program(outer,
               head \o <<LitWrapper(4, lit), Leaf(after, 3, DefaultCallee(after))>>,
               <<Leaf(inner, 2, DefaultCallee(inner))>>)

LitInputs ==
    {LitProgram(o, l, b, i, a) :
        o \in OuterResults, l \in LitResults, b \in BOOLEAN, i \in LitForms, a \in LitForms}

\* a package of two files: one declaration in the one, one `a1 := e` in the function
\* of the other, each of them a well-formed or a rejected call of try, or no try
FilesInputs ==
    {WithDecls(Program(DefaultResults, <<LeafWith("define", 1, e)>>, <<>>), <<LeafWith("var1", 2, d)>>) :
        e \in BadTries \cup {TryOf("g2")},
        d \in BadTries \cup {TryOf("g2"), Call("g1", <<>>)}}

Inputs == StructInputs \cup SigInputs \cup ExprInputs \cup LitInputs \cup FilesInputs

\* ------------------------------------------------------------- state
VARIABLES
    stmts,        \* the AST: the statement list of every block
    funcResults,  \* the AST: Type.Results.List of the function declaration
    orig,         \* the statement lists as parsed (history, never written)
    pc,           \* where translatePackage stands
    tce,          \* the tryCallElimination visitor
    walk,         \* the active visitBlockNode/visitStmts calls, innermost last
    tree,         \* the blockTree of every block
    nci,          \* the nilCheckInsertion
    todo,         \* the blocks whose nci.block call is pending, next first
    modified,     \* Package.modified
    result,       \* what translatePackage returned
    nextId,       \* the identity of the next allocated AST node
    pre,          \* the statement lists when phase 2 started (history, written once)
    zty,          \* zeroValueOf alone: the type,
    znode,        \*   the type node,
    zres,         \*   and the expression returned
    gen,          \* a GeneratePackages call: where it stands, its arguments, what it returned
    pkgs,         \* the []*Package handed to Translate
    fixer,        \* the importsFixer
    disk,         \* the files created under the destination directories
    env,          \* what the machine holds: the parsed sources, the build context
    hist          \* the calls made so far (history)

\* the variables of translatePackage
pkgVars == <<stmts, funcResults, orig, pc, tce, walk, tree, nci, todo, modified, result, nextId, pre>>

\* the variables of a call of zeroValueOf on its own
zeroVars == <<zty, znode, zres>>

\* the variables of a batch of packages
batchVars == <<gen, pkgs, fixer, disk, env, hist>>

\* what the translation of one package leaves alone
otherVars == <<zeroVars, batchVars>>

vars == <<pkgVars, zeroVars, batchVars>>

\* no batch is under way
BatchIdle ==
    /\ gen = <<>>
    /\ pkgs = <<>>
    /\ fixer = <<>>
    /\ disk = {}
    /\ env = <<>>
    /\ hist = <<>>

\* an error position is the place of an expression: statement node and spec number
NoErr == [msg |-> "", pos |-> <<0, 0>>]

\* the function declaration of the package
FuncDecl == "FuncDecl"

\* the function literal of the package
FuncLit == "FuncLit"

\* Type.Results.List of the function node fun (*ast.FuncDecl or *ast.FuncLit) in ast
FuncTypeResults(ast, fun) ==
    IF fun = FuncDecl THEN funcResults
    ELSE LET l == ast[RootBlk]
         IN l[CHOOSE i \in 1..Len(l) : l[i].kind = "GoStmt"].results

NoTree == [made |-> FALSE, transPoints |-> <<>>, children |-> <<>>, parent |-> NilBlk]

MaxId(p) ==
    LET ids == UNION {{p.stmts[b][i].id : i \in 1..Len(p.stmts[b])} : b \in ListIds}
    IN IF ids = {} THEN 0 ELSE CHOOSE x \in ids : \A y \in ids : y <= x

Init ==
    \E p \in Inputs :
        /\ stmts = p.stmts
        /\ funcResults = p.results
        /\ orig = p.stmts
        /\ pc = "parsed"
        /\ tce = [err |-> NoErr, roots |-> <<>>, parentBlk |-> NilBlk, currentBlk |-> NilBlk,
                  blkIndex |-> 0, varID |-> 0, parents |-> <<>>, funcs |-> <<>>, numTrans |-> 0]
        /\ walk = <<>>
        /\ tree = [b \in BlockIds |-> NoTree]
        /\ nci = [blk |-> NilBlk, offset |-> 0, varID |-> 0, next |-> 0]
        /\ todo = <<>>
        /\ modified = FALSE
        /\ result = "running"
        /\ nextId = MaxId(p) + 1
        /\ pre = p.stmts
        /\ zty = [kind |-> "none", basic |-> "", under |-> <<>>]
        /\ znode = "none"
        /\ zres = NoExpr
        /\ BatchIdle

\* ------------------------------------------------------------- phase 1
\* The operators of phase 1 take and return the machine state
\* m = [tce, tree, stmts, nextId].

\* nodeStack
push(ns, n) == Append(ns, n)

pop(ns) == SubSeq(ns, 1, Len(ns) - 1)

top(ns) == ns[Len(ns)]

\* the index (1-based) in list of the statement node id
PosOf(list, id) == CHOOSE i \in 1..Len(list) : list[i].id = id

\* the statement node id of the current block
NodeOf(m, id) == LET l == m.stmts[m.tce.currentBlk] IN l[PosOf(l, id)]

\* the statement node id of the current block assigned s
SetNode(m, id, s) ==
    LET b == m.tce.currentBlk
    IN [m EXCEPT !.stmts[b] = ReplaceAt(@, PosOf(@, id), s)]

errAt(m, pos, msg) == [m EXCEPT !.tce.err = [msg |-> msg, pos |-> pos]]

\* blockTree.insertStmtAt: stmt inserted before index idx (0-based) of the block
TreeInsertStmtAt(list, idx, stmt) ==
    SubSeq(list, 1, idx) \o <<stmt>> \o SubSeq(list, idx + 1, Len(list))

\* variant: the statement is inserted after the current statement
insertStmt_After(m, stmt) ==
    LET b == m.tce.currentBlk
    IN [m EXCEPT !.stmts[b] = TreeInsertStmtAt(@, m.tce.blkIndex + 1, stmt),
                 !.tce.blkIndex = @ + 1]

insertStmt(m, stmt) ==
    LET b == m.tce.currentBlk
    IN [m EXCEPT !.stmts[b] = TreeInsertStmtAt(@, m.tce.blkIndex, stmt),
                 !.tce.blkIndex = @ + 1]

newTempIdent(m) == "_" \o Itoa(m.tce.varID)

\* variant: the argument of try() is not checked to be a call
checkTryCall_AnyArg(m, maybeCall, pos) ==
    LET skip == [m |-> m, tryCall |-> FALSE, innerCall |-> maybeCall, ok |-> TRUE]
        fail(msg) == [m |-> errAt(m, pos, msg), tryCall |-> FALSE, innerCall |-> maybeCall, ok |-> FALSE]
    IN IF maybeCall.op # "call" THEN skip
       ELSE IF maybeCall.name # "try" THEN skip
       ELSE IF Len(maybeCall.args) # 1 THEN fail("try() should take 1 argument")
       ELSE IF Len(m.tce.funcs) = 0 THEN fail("try() function is used outside function")
       ELSE IF Len(FuncTypeResults(m.stmts, top(m.tce.funcs))) = 0
            THEN fail("The function returns nothing. try() is not available")
       ELSE IF Last(FuncTypeResults(m.stmts, top(m.tce.funcs))).type # "error"
            THEN fail("The function does not return error as last return value")
       ELSE [m |-> m, tryCall |-> TRUE, innerCall |-> maybeCall.args[1], ok |-> TRUE]

\* [m, tryCall, innerCall, ok]; tryCall = FALSE stands for the nil *ast.CallExpr
checkTryCall(m, maybeCall, pos) ==
    LET skip == [m |-> m, tryCall |-> FALSE, innerCall |-> maybeCall, ok |-> TRUE]
        fail(msg) == [m |-> errAt(m, pos, msg), tryCall |-> FALSE, innerCall |-> maybeCall, ok |-> FALSE]
    IN IF maybeCall.op # "call" THEN skip
       ELSE IF maybeCall.name # "try" THEN skip
       ELSE IF Len(maybeCall.args) # 1 THEN fail("try() should take 1 argument")
       ELSE IF maybeCall.args[1].op # "call" THEN fail("try() call's argument must be function call")
       ELSE IF Len(m.tce.funcs) = 0 THEN fail("try() function is used outside function")
       ELSE IF Len(FuncTypeResults(m.stmts, top(m.tce.funcs))) = 0
            THEN fail("The function returns nothing. try() is not available")
       ELSE IF Last(FuncTypeResults(m.stmts, top(m.tce.funcs))).type # "error"
            THEN fail("The function does not return error as last return value")
       ELSE [m |-> m, tryCall |-> TRUE, innerCall |-> maybeCall.args[1], ok |-> TRUE]

\* a translation point; guard is history: the node of the `if` phase 2 made for it
TransPoint(kind, node, spec, blockIndex, fun, call, parent) ==
    [kind |-> kind, node |-> node, spec |-> spec, blockIndex |-> blockIndex, fun |-> fun,
     call |-> call, parent |-> parent, pos |-> node, guard |-> 0]

\* variant: the point takes the outermost function of the stack
eliminateTryCall_OuterFrame(m, kind, node, spec) ==
    LET s == NodeOf(m, node)
        maybeTryCall == s.specs[spec].values[1]
        c == checkTryCall(m, maybeTryCall, <<node, spec>>)
    IN IF ~c.ok \/ ~c.tryCall THEN [m |-> c.m, ok |-> FALSE]
       ELSE LET squashed == [s EXCEPT !.specs[spec].values[1] = c.innerCall]
                p == TransPoint(kind, node, spec, m.tce.blkIndex, m.tce.funcs[1],
                                c.innerCall, top(m.tce.parents))
                m1 == SetNode(m, node, squashed)
            IN [m |-> [m1 EXCEPT !.tree[m.tce.currentBlk].transPoints = Append(@, p),
                                 !.tce.numTrans = @ + 1],
                ok |-> TRUE]

\* [m, ok]; the try() call is value number 1 of spec number spec of statement node
eliminateTryCall(m, kind, node, spec) ==
    LET s == NodeOf(m, node)
        maybeTryCall == s.specs[spec].values[1]
        c == checkTryCall(m, maybeTryCall, <<node, spec>>)
    IN IF ~c.ok \/ ~c.tryCall THEN [m |-> c.m, ok |-> FALSE]
       ELSE LET squashed == [s EXCEPT !.specs[spec].values[1] = c.innerCall]
                p == TransPoint(kind, node, spec, m.tce.blkIndex, top(m.tce.funcs),
                                c.innerCall, top(m.tce.parents))
                m1 == SetNode(m, node, squashed)
            IN [m |-> [m1 EXCEPT !.tree[m.tce.currentBlk].transPoints = Append(@, p),
                                 !.tce.numTrans = @ + 1],
                ok |-> TRUE]

\* the names (or Lhs) of spec number spec of statement node get a trailing `_`
AppendBlank(m, node, spec) ==
    LET s == NodeOf(m, node)
    IN SetNode(m, node, [s EXCEPT !.specs[spec].names = Append(@, "_")])

visitSpec(m, node, spec) ==
    IF Len(NodeOf(m, node).specs[spec].values) # 1 THEN m
    ELSE LET r == eliminateTryCall(m, "ValueSpec", node, spec)
         IN IF ~r.ok THEN r.m ELSE AppendBlank(r.m, node, spec)

RECURSIVE visitAssign(_, _)
visitAssign(m, node) ==
    LET assign == NodeOf(m, node)
    IN IF Len(assign.specs[1].values) # 1 THEN m
       ELSE IF top(m.tce.parents) \notin {"BlockStmt", "CommClause", "CaseClause"} THEN m
       ELSE IF assign.tok \notin {":=", "="}
            THEN LET rhs == assign.specs[1].values[1]
                     tmp == newTempIdent(m)
                     m1 == [SetNode(m, node, [assign EXCEPT !.specs[1].values[1] = Ident(tmp)])
                              EXCEPT !.tce.varID = @ + 1]
                     def == Stmt(m.nextId, "AssignStmt", ":=", <<Binding(<<tmp>>, "", <<rhs>>)>>, NilBlk)
                     m2 == insertStmt([m1 EXCEPT !.nextId = @ + 1], def)
                     m3 == visitAssign([m2 EXCEPT !.tce.blkIndex = @ - 1], def.id)
                 IN [m3 EXCEPT !.tce.blkIndex = @ + 1]
       ELSE LET r == eliminateTryCall(m, "Assign", node, 1)
            IN IF ~r.ok THEN r.m ELSE AppendBlank(r.m, node, 1)

\* a call of the identifier try somewhere in e
RECURSIVE HasTry(_)
HasTry(e) ==
    /\ e.op = "call"
    /\ \/ e.name = "try"
       \/ \E i \in 1..Len(e.args) : HasTry(e.args[i])

\* ast.Walk over the expressions es: visitPre sets the error at the first try() call
RECURSIVE WalkExprs(_, _, _)
WalkExprs(m, es, pos) ==
    IF m.tce.err # NoErr \/ es = <<>> THEN m
    ELSE IF HasTry(es[1]) THEN errAt(m, pos, "try() call was not translated")
    ELSE WalkExprs(m, SubSeq(es, 2, Len(es)), pos)

visitToplevelExpr(m, node) ==
    LET r == eliminateTryCall(m, "ToplevelCall", node, 1)
    IN IF r.ok THEN r.m
       ELSE IF r.m.tce.err = NoErr THEN WalkExprs(r.m, NodeOf(r.m, node).specs[1].values, <<node, 1>>)
       ELSE r.m

\* ast.Walk over the value specs of a declaration statement, from spec number spec on:
\* Visit runs visitSpec and then walks the values of the spec
RECURSIVE WalkSpecs(_, _, _)
WalkSpecs(m, node, spec) ==
    IF m.tce.err # NoErr \/ spec > Len(NodeOf(m, node).specs) THEN m
    ELSE LET m1 == visitSpec(m, node, spec)
             m2 == WalkExprs(m1, NodeOf(m1, node).specs[spec].values, <<node, spec>>)
         IN WalkSpecs(m2, node, spec + 1)

\* ast.Walk over an assignment: Visit runs visitAssign, then walks Lhs and Rhs
WalkAssign(m, node) ==
    LET m1 == visitAssign(m, node)
    IN WalkExprs(m1, NodeOf(m1, node).specs[1].values, <<node, 1>>)

M == [tce |-> tce, tree |-> tree, stmts |-> stmts, nextId |-> nextId]

SetM(m) ==
    /\ tce' = m.tce
    /\ tree' = m.tree
    /\ stmts' = m.stmts
    /\ nextId' = m.nextId

\* pushBlock; the caller keeps the returned prevIdx and prevVarID in its walk frame
pushBlock(m, node) ==
    LET parent == m.tce.currentBlk
        made == [m EXCEPT !.tree[node] = [made |-> TRUE, transPoints |-> <<>>,
                                          children |-> <<>>, parent |-> parent]]
        linked == IF parent = NilBlk
                  THEN [made EXCEPT !.tce.roots = Append(@, node)]
                  ELSE [made EXCEPT !.tree[parent].children = Append(@, node)]
    IN [linked EXCEPT !.tce.parentBlk = parent,
                      !.tce.currentBlk = node,
                      !.tce.blkIndex = 0,
                      !.tce.varID = 0]

popBlock(m, prevIdx, prevVarID) ==
    [m EXCEPT !.tce.blkIndex = prevIdx,
              !.tce.varID = prevVarID,
              !.tce.currentBlk = m.tce.parentBlk,
              !.tce.parentBlk = IF m.tce.parentBlk # NilBlk
                                THEN m.tree[m.tce.parentBlk].parent
                                ELSE NilBlk]

\* the call of visitBlockNode(node, list) up to its visitStmts loop; outer is the
\* node whose ast.Walk reached the block; rest tells that the loop of ast.Walk over
\* the files of the package has the file of the declarations still to come
Frame(m, node, outer) ==
    [node |-> node, list |-> m.stmts[node], i |-> 1,
     prevIdx |-> m.tce.blkIndex, prevVarID |-> m.tce.varID, outer |-> outer, rest |-> FALSE]

EnterBlock(m, node) == pushBlock([m EXCEPT !.tce.parents = push(@, "BlockStmt")], node)

\* ast.Walk over the declarations at file level, from number i on: GenDecl, its
\* value specs and their values
RECURSIVE WalkDecls(_, _)
WalkDecls(m, i) ==
    IF m.tce.err # NoErr \/ i > Len(m.stmts[FileLevel]) THEN m
    ELSE LET m1 == WalkSpecs([m EXCEPT !.tce.parents = push(@, "GenDecl")],
                             m.stmts[FileLevel][i].id, 1)
         IN IF m1.tce.err # NoErr THEN m1
            ELSE WalkDecls([m1 EXCEPT !.tce.parents = pop(@)], i + 1)

\* the orders in which `range pkg.Files` of ast.Walk may yield the file of the
\* declarations and the file of the function: a Go map has no iteration order
DeclsFirst == IF stmts[FileLevel] = <<>> THEN {TRUE} ELSE BOOLEAN

\* ast.Walk(tce, pkg.Node): through the file of the declarations and down to the body
\* of the function declaration, or down to the body first
WalkPackage ==
    /\ pc = "parsed"
    /\ \E declsFirst \in DeclsFirst :
           LET m0 == IF declsFirst
                     THEN WalkDecls([M EXCEPT !.tce.parents = <<"Package", "File">>], 1)
                     ELSE [M EXCEPT !.tce.parents = <<"Package", "File">>]
               m == [m0 EXCEPT !.tce.parents = push(@, "FuncDecl"),
                               !.tce.funcs = push(@, FuncDecl)]
           IN IF m0.tce.err # NoErr
              THEN /\ SetM(m0)
                   /\ walk' = <<>>
                   /\ pc' = "walked"
              ELSE /\ SetM(EnterBlock(m, RootBlk))
                   /\ walk' = <<[Frame(m, RootBlk, "FuncDecl") EXCEPT !.rest = ~declsFirst]>>
                   /\ pc' = "pass1"
    /\ UNCHANGED <<funcResults, orig, nci, todo, modified, result, pre>>
    /\ UNCHANGED otherVars

\* variant: the index of the block is not stepped
VisitLeaf_NoStep(m, s) ==
    CASE s.kind = "ExprStmt" -> visitToplevelExpr(m, s.id)
      [] s.kind = "AssignStmt" -> WalkAssign(m, s.id)
      [] s.kind = "DeclStmt" ->
            LET m1 == WalkSpecs([m EXCEPT !.tce.parents = @ \o <<"DeclStmt", "GenDecl">>],
                                s.id, 1)
            IN IF m1.tce.err = NoErr THEN [m1 EXCEPT !.tce.parents = pop(pop(@))] ELSE m1
      [] OTHER -> m

\* one iteration of the loop of visitStmts over a statement that holds no block
VisitLeaf(m, s) ==
    LET visited ==
            CASE s.kind = "ExprStmt" -> visitToplevelExpr(m, s.id)
              [] s.kind = "AssignStmt" -> WalkAssign(m, s.id)
              [] s.kind = "DeclStmt" ->
                    LET m1 == WalkSpecs([m EXCEPT !.tce.parents = @ \o <<"DeclStmt", "GenDecl">>],
                                        s.id, 1)
                    IN IF m1.tce.err = NoErr THEN [m1 EXCEPT !.tce.parents = pop(pop(@))] ELSE m1
              [] OTHER -> m
    IN [visited EXCEPT !.tce.blkIndex = @ + 1]

\* variant: the loop of visitStmts goes on after an error
VisitStmt_AfterError ==
    /\ pc = "pass1"
    /\ walk # <<>>
    /\ LET f == top(walk)
       IN /\ f.i <= Len(f.list)
          /\ LET s == f.list[f.i]
             IN IF s.child # NilBlk
                THEN LET m == IF s.kind = "GoStmt"
                              THEN [M EXCEPT !.tce.parents = @ \o <<"GoStmt", "CallExpr", FuncLit>>,
                                             !.tce.funcs = push(@, FuncLit)]
                              ELSE [M EXCEPT !.tce.parents = push(@, s.kind)]
                     IN /\ SetM(EnterBlock(m, s.child))
                        /\ walk' = Append(walk, Frame(m, s.child, s.kind))
                ELSE /\ SetM(VisitLeaf(M, s))
                     /\ walk' = [walk EXCEPT ![Len(walk)].i = @ + 1]
    /\ UNCHANGED <<funcResults, orig, pc, nci, todo, modified, result, pre>>
    /\ UNCHANGED otherVars

VisitStmt ==
    /\ pc = "pass1"
    /\ walk # <<>>
    /\ tce.err = NoErr
    /\ LET f == top(walk)
       IN /\ f.i <= Len(f.list)
          /\ LET s == f.list[f.i]
             IN IF s.child # NilBlk
                THEN LET m == IF s.kind = "GoStmt"
                              THEN [M EXCEPT !.tce.parents = @ \o <<"GoStmt", "CallExpr", FuncLit>>,
                                             !.tce.funcs = push(@, FuncLit)]
                              ELSE [M EXCEPT !.tce.parents = push(@, s.kind)]
                     IN /\ SetM(EnterBlock(m, s.child))
                        /\ walk' = Append(walk, Frame(m, s.child, s.kind))
                ELSE /\ SetM(VisitLeaf(M, s))
                     /\ walk' = [walk EXCEPT ![Len(walk)].i = @ + 1]
    /\ UNCHANGED <<funcResults, orig, pc, nci, todo, modified, result, pre>>
    /\ UNCHANGED otherVars

\* variant: the end of a function leaves the funcs stack alone
VisitNil_KeepFuncs(m) ==
    IF m.tce.err # NoErr THEN m
    ELSE [m EXCEPT !.tce.parents = pop(@)]

\* Visit(nil) after the children of node were walked
VisitNil(m) ==
    IF m.tce.err # NoErr THEN m
    ELSE LET n == top(m.tce.parents)
             m1 == [m EXCEPT !.tce.parents = pop(@)]
         IN IF n \in {"FuncDecl", "FuncLit"} THEN [m1 EXCEPT !.tce.funcs = pop(@)] ELSE m1

\* ast.Walk leaves the file of the function and walks the file of the declarations
WalkRest(m) ==
    LET left == VisitNil(m)
    IN IF left.tce.err # NoErr THEN left
       ELSE WalkDecls([left EXCEPT !.tce.parents = push(@, "File")], 1)

\* the end of visitStmts (the list is through, or the error is set), the rest of
\* visitBlockNode, and the return into the walk of the node that holds the block
LeaveBlock ==
    /\ pc = "pass1"
    /\ walk # <<>>
    /\ LET f == top(walk)
       IN /\ f.i > Len(f.list) \/ tce.err # NoErr
          /\ LET m1 == popBlock(M, f.prevIdx, f.prevVarID)
                 m0 == VisitNil([m1 EXCEPT !.tce.parents = pop(@)])
                 m2 == IF f.outer = "GoStmt" THEN VisitNil(VisitNil(m0)) ELSE m0
             IN IF Len(walk) > 1
                THEN /\ SetM([m2 EXCEPT !.tce.blkIndex = @ + 1])
                     /\ walk' = [pop(walk) EXCEPT ![Len(walk) - 1].i = @ + 1]
                     /\ pc' = pc
                ELSE /\ SetM(VisitNil(VisitNil(IF f.rest THEN WalkRest(m2) ELSE m2)))
                     /\ walk' = <<>>
                     /\ pc' = "walked"
    /\ UNCHANGED <<funcResults, orig, nci, todo, modified, result, pre>>
    /\ UNCHANGED otherVars

assertPostCondition ==
    /\ tce.parents = <<>>
    /\ tce.funcs = <<>>
    /\ tce.parentBlk = NilBlk
    /\ tce.currentBlk = NilBlk

\* translatePackage after the walk of phase 1
Phase1End ==
    /\ pc = "walked"
    /\ IF tce.err # NoErr THEN pc' = "done" /\ result' = tce.err.msg
       ELSE IF ~assertPostCondition THEN pc' = "panic" /\ result' = result
       ELSE IF tce.numTrans = 0 THEN pc' = "done" /\ result' = "nil"
       ELSE pc' = "typecheck" /\ result' = result
    /\ UNCHANGED <<stmts, funcResults, orig, tce, walk, tree, nci, todo, modified, nextId, pre>>
    /\ UNCHANGED otherVars

\* ------------------------------------------------------------- type check
\* The type checker is go/types; the generated programs are well typed apart from
\* the number of values a call is assigned to, which is all the model decides: a
\* call of n results initialises or is assigned to exactly n names (never 0), a
\* call statement may have any number of results, and `try` is no declared name.
ValueTypeError(b) ==
    \/ Len(b.values) # 1
    \/ LET v == b.values[1]
       IN \/ HasTry(v)
          \/ v.op = "call" /\ v.name \in Callees /\ Len(b.names) # Len(CalleeResults[v.name])
          \/ v.op # "call" /\ Len(b.names) # 1

StmtTypeError(s) ==
    CASE s.kind \in {"DeclStmt", "AssignStmt"} ->
            \E j \in 1..Len(s.specs) : s.specs[j].values # <<>> /\ ValueTypeError(s.specs[j])
      [] s.kind = "ExprStmt" -> HasTry(s.specs[1].values[1])
      [] OTHER -> FALSE

TypeErrors(ast) == \E b \in ListIds : \E i \in 1..Len(ast[b]) : StmtTypeError(ast[b][i])

\* collectTransPoints
RECURSIVE collectTransPoints(_, _)
collectTransPoints(t, b) ==
    LET RECURSIVE over(_)
        over(cs) == IF cs = <<>> THEN <<>>
                    ELSE collectTransPoints(t, cs[1]) \o over(SubSeq(cs, 2, Len(cs)))
    IN t[b].transPoints \o over(t[b].children)

\* typeCheck and the construction of the nilCheckInsertion
TypeCheck ==
    /\ pc = "typecheck"
    /\ IF TypeErrors(stmts)
       THEN /\ pc' = "done"
            /\ result' = "Type error(s) at type check after phase-1"
            /\ UNCHANGED <<nci, todo, pre>>
       ELSE /\ pc' = "pass2"
            /\ pre' = stmts
            /\ nci' = [blk |-> NilBlk, offset |-> 0, varID |-> 0, next |-> 0]
            /\ todo' = tce.roots
            /\ result' = result
    /\ UNCHANGED <<stmts, funcResults, orig, tce, walk, tree, modified, nextId>>
    /\ UNCHANGED otherVars

\* ------------------------------------------------------------- types
\* types.Type: kind is the Go type of the value (Basic, Slice, ..., Named, Tuple),
\* basic the kind of a Basic, under the underlying type of a Named
Type(kind, basic, under) == [kind |-> kind, basic |-> basic, under |-> under]

Basic(k) == Type("Basic", k, <<>>)

Unnamed(kind) == Type(kind, "", <<>>)

Named(u) == Type("Named", "", <<u>>)

\* the type a result type node resolves to
Resolve(typeNode) ==
    CASE typeNode = "int" -> Basic("Int")
      [] typeNode = "S" -> Named(Unnamed("Struct"))
      [] typeNode = "error" -> Named(Unnamed("Interface"))

\* Signature.Results() of the function whose result list is fl: one type per result
RECURSIVE SignatureResults(_)
SignatureResults(fl) ==
    IF fl = <<>> THEN <<>>
    ELSE LET n == IF Len(fl[1].names) = 0 THEN 1 ELSE Len(fl[1].names)
         IN [i \in 1..n |-> Resolve(fl[1].type)] \o SignatureResults(SubSeq(fl, 2, Len(fl)))

\* typeInfo.Types[call].Type of a call of callee: no tuple for a single result
CallType(callee) ==
    LET rs == CalleeResults[callee]
    IN IF Len(rs) = 1 THEN [tuple |-> FALSE, len |-> 1] ELSE [tuple |-> TRUE, len |-> Len(rs)]

\* ------------------------------------------------------------- phase 2
BasicLit(kind, value) == [op |-> kind, name |-> value, args |-> <<>>]

CompositeLit(typeNode) == [op |-> "CompositeLit", name |-> typeNode, args |-> <<>>]

Panic(msg) == [op |-> "panic", name |-> msg, args |-> <<>>]

RECURSIVE zeroValueOf(_, _)
zeroValueOf(ty, typeNode) ==
    CASE ty.kind = "Basic" ->
            CASE ty.basic \in {"Bool", "UntypedBool", "UntypedInt"} -> Ident("false")
              [] ty.basic \in {"Int", "Int8", "Int16", "Int32", "Int64",
                               "Uint", "Uint8", "Uint16", "Uint32", "Uint64", "Uintptr"} ->
                    BasicLit("INT", "0")
              [] ty.basic \in {"Float32", "Float64", "UntypedFloat"} -> BasicLit("FLOAT", "0.0")
              [] ty.basic \in {"Complex64", "Complex128", "UntypedComplex"} -> BasicLit("IMAG", "0i")
              [] ty.basic \in {"String", "UntypedString"} -> BasicLit("STRING", "\"\"")
              [] ty.basic \in {"UnsafePointer", "UntypedNil"} -> Ident("nil")
              [] ty.basic = "UntypedRune" -> BasicLit("CHAR", "'\\0'")
              [] OTHER -> Panic("Unreachable")
      [] ty.kind \in {"Slice", "Pointer", "Signature", "Interface", "Map", "Chan"} -> Ident("nil")
      [] ty.kind \in {"Struct", "Array"} -> CompositeLit(typeNode)
      [] ty.kind = "Named" ->
            IF ty.under[1].kind = "Struct" THEN CompositeLit(typeNode)
            ELSE zeroValueOf(ty.under[1], typeNode)
      [] ty.kind = "Tuple" -> Panic("Cannot obtain zero value of tuple")
      [] OTHER -> Panic("Cannot obtain zero value of tuple")

\* The operators of phase 2 take and return the machine state
\* n = [stmts, nci, nextId, panic].
N == [stmts |-> stmts, nci |-> nci, nextId |-> nextId, panic |-> FALSE]

genErrIdent(n) == "_err" \o Itoa(n.nci.varID)

\* nci.insertStmtAt
insertStmtAt(n, index, stmt) ==
    LET prev == n.stmts[n.nci.blk]
        idx == index + n.nci.offset
    IN IF idx < 0 \/ idx > Len(prev) THEN [n EXCEPT !.panic = TRUE]
       ELSE [n EXCEPT !.stmts[n.nci.blk] = SubSeq(prev, 1, idx) \o <<stmt>> \o SubSeq(prev, idx + 1, Len(prev)),
                      !.nci.offset = @ + 1]

\* variant: the offset is not taken back
removeStmtAt_KeepOffset(n, index) ==
    LET prev == n.stmts[n.nci.blk]
        idx == index + n.nci.offset
    IN IF idx < 0 \/ idx >= Len(prev) THEN [n EXCEPT !.panic = TRUE]
       ELSE [n EXCEPT !.stmts[n.nci.blk] = SubSeq(prev, 1, idx) \o SubSeq(prev, idx + 2, Len(prev))]

removeStmtAt(n, index) ==
    LET prev == n.stmts[n.nci.blk]
        idx == index + n.nci.offset
    IN IF idx < 0 \/ idx >= Len(prev) THEN [n EXCEPT !.panic = TRUE]
       ELSE [n EXCEPT !.stmts[n.nci.blk] = SubSeq(prev, 1, idx) \o SubSeq(prev, idx + 2, Len(prev)),
                      !.nci.offset = @ - 1]

\* the type node the loop of insertIfNilChkStmtAfter passes for result i (0-based)
ResultTypeNode(fl, i) == fl[i + 1].type

\* retVals of insertIfNilChkStmtAfter, or <<Panic>> when the loop panics
RetVals(fl, errIdent) ==
    LET rets == SignatureResults(fl)
        retLen == Len(rets)
        zero(i) == IF i + 1 > Len(fl) THEN Panic("index out of range")
                   ELSE zeroValueOf(rets[i + 1], ResultTypeNode(fl, i))
        zeros == [i \in 1..(retLen - 1) |-> zero(i - 1)]
    IN IF \E i \in 1..Len(zeros) : zeros[i].op = "panic" THEN <<Panic("panic")>>
       ELSE Append(zeros, Ident(errIdent))

IfStmt(id, init, errIdent, retVals) ==
    [id |-> id, kind |-> "IfStmt", tok |-> "", specs |-> init, child |-> NilBlk,
     cond |-> errIdent, ret |-> retVals, results |-> <<>>]

insertIfNilChkStmtAfter(n, index, errIdent, init, fun) ==
    LET retVals == RetVals(FuncTypeResults(n.stmts, fun), errIdent)
    IN IF retVals[1].op = "panic" THEN [n EXCEPT !.panic = TRUE]
       ELSE insertStmtAt([n EXCEPT !.nextId = @ + 1], index + 1,
                         IfStmt(n.nextId, init, errIdent, retVals))

\* variant: the first name is replaced
SetLastName_First(n, node, spec, errIdent) ==
    LET l == n.stmts[n.nci.blk]
        i == PosOf(l, node)
    IN [n EXCEPT !.stmts[n.nci.blk][i].specs[spec].names = ReplaceAt(@, 1, errIdent)]

\* the last name (or Lhs) of spec number spec of statement node becomes errIdent
SetLastName(n, node, spec, errIdent) ==
    LET l == n.stmts[n.nci.blk]
        i == PosOf(l, node)
    IN [n EXCEPT !.stmts[n.nci.blk][i].specs[spec].names = ReplaceAt(@, Len(@), errIdent)]

transValueSpec(n, trans) ==
    LET errIdent == genErrIdent(n)
        n1 == SetLastName([n EXCEPT !.nci.varID = @ + 1], trans.node, trans.spec, errIdent)
    IN insertIfNilChkStmtAfter(n1, trans.blockIndex, errIdent, <<>>, trans.fun)

\* variant: an `=` assignment is handled as a `:=` one: no `var _errN error`
transAssign_NoDecl(n, trans) ==
    LET errIdent == genErrIdent(n)
        n0 == [n EXCEPT !.nci.varID = @ + 1]
    IN insertIfNilChkStmtAfter(SetLastName(n0, trans.node, 1, errIdent),
                               trans.blockIndex, errIdent, <<>>, trans.fun)

transAssign(n, trans) ==
    LET node == n.stmts[n.nci.blk][PosOf(n.stmts[n.nci.blk], trans.node)]
        errIdent == genErrIdent(n)
        n0 == [n EXCEPT !.nci.varID = @ + 1]
    IN IF node.tok = ":="
       THEN insertIfNilChkStmtAfter(SetLastName(n0, trans.node, 1, errIdent),
                                    trans.blockIndex, errIdent, <<>>, trans.fun)
       ELSE LET decl == Stmt(n0.nextId, "DeclStmt", "var", <<Binding(<<errIdent>>, "error", <<>>)>>, NilBlk)
                n1 == insertStmtAt([n0 EXCEPT !.nextId = @ + 1], trans.blockIndex, decl)
            IN IF n1.panic THEN n1
               ELSE insertIfNilChkStmtAfter(SetLastName(n1, trans.node, 1, errIdent),
                                            trans.blockIndex, errIdent, <<>>, trans.fun)

\* variant: a top-level call takes a number of the block
transToplevelExpr_Counts(n, trans) ==
    LET n1 == removeStmtAt([n EXCEPT !.nci.varID = @ + 1], trans.blockIndex)
        ty == CallType(trans.call.name)
        numIgnores == IF ty.tuple THEN ty.len - 1 ELSE 0
        lhs == [i \in 1..numIgnores |-> "_"] \o <<"err">>
        assign == Binding(lhs, "", <<trans.call>>)
    IN IF n1.panic THEN n1
       ELSE insertIfNilChkStmtAfter(n1, trans.blockIndex, "err", <<assign>>, trans.fun)

transToplevelExpr(n, trans) ==
    LET n1 == removeStmtAt(n, trans.blockIndex)
        ty == CallType(trans.call.name)
        numIgnores == IF ty.tuple THEN ty.len - 1 ELSE 0
        lhs == [i \in 1..numIgnores |-> "_"] \o <<"err">>
        assign == Binding(lhs, "", <<trans.call>>)
    IN IF n1.panic THEN n1
       ELSE insertIfNilChkStmtAfter(n1, trans.blockIndex, "err", <<assign>>, trans.fun)

insertNilCheck(n, trans) ==
    CASE trans.kind = "ValueSpec" -> transValueSpec(n, trans)
      [] trans.kind = "Assign" -> transAssign(n, trans)
      [] trans.kind = "ToplevelCall" -> transToplevelExpr(n, trans)
      [] OTHER -> [n EXCEPT !.panic = TRUE]

\* variant: the counter runs on from block to block
NciBlock_KeepVarID ==
    /\ pc = "pass2"
    /\ nci.next = 0
    /\ todo # <<>>
    /\ nci' = [blk |-> Head(todo), offset |-> 0, varID |-> nci.varID, next |-> 1]
    /\ todo' = Tail(todo)
    /\ UNCHANGED <<stmts, funcResults, orig, pc, tce, walk, tree, modified, result, nextId, pre>>
    /\ UNCHANGED otherVars

\* nci.block(b) up to its loop over b.transPoints
NciBlock ==
    /\ pc = "pass2"
    /\ nci.next = 0
    /\ todo # <<>>
    /\ nci' = [blk |-> Head(todo), offset |-> 0, varID |-> 0, next |-> 1]
    /\ todo' = Tail(todo)
    /\ UNCHANGED <<stmts, funcResults, orig, pc, tce, walk, tree, modified, result, nextId, pre>>
    /\ UNCHANGED otherVars

\* variant: the loop does not go on to the next point
InsertNilCheck_NoAdvance ==
    /\ pc = "pass2"
    /\ nci.next > 0
    /\ nci.next <= Len(tree[nci.blk].transPoints)
    /\ LET trans == tree[nci.blk].transPoints[nci.next]
           n == insertNilCheck(N, trans)
       IN /\ stmts' = n.stmts
          /\ nextId' = n.nextId
          /\ IF n.panic
             THEN /\ pc' = "panic"
                  /\ nci' = n.nci
                  /\ tree' = tree
             ELSE /\ pc' = pc
                  /\ nci' = n.nci
                  /\ tree' = [tree EXCEPT ![nci.blk].transPoints[nci.next].guard = n.nextId - 1]
    /\ UNCHANGED <<funcResults, orig, tce, walk, todo, modified, result, pre>>
    /\ UNCHANGED otherVars

\* one iteration of the loop over b.transPoints
InsertNilCheck ==
    /\ pc = "pass2"
    /\ nci.next > 0
    /\ nci.next <= Len(tree[nci.blk].transPoints)
    /\ LET trans == tree[nci.blk].transPoints[nci.next]
           n == insertNilCheck(N, trans)
       IN /\ stmts' = n.stmts
          /\ nextId' = n.nextId
          /\ IF n.panic
             THEN /\ pc' = "panic"
                  /\ nci' = n.nci
                  /\ tree' = tree
             ELSE /\ pc' = pc
                  /\ nci' = [n.nci EXCEPT !.next = @ + 1]
                  /\ tree' = [tree EXCEPT ![nci.blk].transPoints[nci.next].guard = n.nextId - 1]
    /\ UNCHANGED <<funcResults, orig, tce, walk, todo, modified, result, pre>>
    /\ UNCHANGED otherVars

\* the loop of nci.block over b.children: the children come before what is pending
NciChildren ==
    /\ pc = "pass2"
    /\ nci.next > 0
    /\ nci.next > Len(tree[nci.blk].transPoints)
    /\ nci' = [nci EXCEPT !.next = 0]
    /\ todo' = tree[nci.blk].children \o todo
    /\ UNCHANGED <<stmts, funcResults, orig, pc, tce, walk, tree, modified, result, nextId, pre>>
    /\ UNCHANGED otherVars

\* translatePackage after nci.translate
Phase2End ==
    /\ pc = "pass2"
    /\ nci.next = 0
    /\ todo = <<>>
    /\ modified' = TRUE
    /\ result' = "nil"
    /\ pc' = "done"
    /\ UNCHANGED <<stmts, funcResults, orig, tce, walk, tree, nci, todo, nextId, pre>>
    /\ UNCHANGED otherVars

Next ==
    \/ WalkPackage
    \/ VisitStmt
    \/ LeaveBlock
    \/ Phase1End
    \/ TypeCheck
    \/ NciBlock
    \/ InsertNilCheck
    \/ NciChildren
    \/ Phase2End

Spec == Init /\ [][Next]_vars

\* ------------------------------------------------------------- zeroValueOf alone
BasicKinds ==
    {"Invalid", "Bool", "Int", "Int8", "Int16", "Int32", "Int64",
     "Uint", "Uint8", "Uint16", "Uint32", "Uint64", "Uintptr",
     "Float32", "Float64", "Complex64", "Complex128", "String", "UnsafePointer",
     "UntypedBool", "UntypedInt", "UntypedRune", "UntypedFloat", "UntypedComplex",
     "UntypedString", "UntypedNil"}

UnnamedKinds == {"Slice", "Pointer", "Signature", "Interface", "Map", "Chan", "Struct", "Array"}

\* the underlying type of a named type is never a named type or a tuple
UnderlyingTypes == {Basic(k) : k \in BasicKinds} \cup {Unnamed(k) : k \in UnnamedKinds}

ZeroTypes == UnderlyingTypes \cup {Named(u) : u \in UnderlyingTypes} \cup {Unnamed("Tuple")}

TypeNodes == {"T", "pkg.S", "[2]int"}

ZeroInit ==
    /\ zty \in ZeroTypes
    /\ znode \in TypeNodes
    /\ zres = NoExpr
    /\ stmts = [b \in ListIds |-> <<>>]
    /\ funcResults = <<>>
    /\ orig = stmts
    /\ pre = stmts
    /\ pc = "zero"
    /\ tce = [err |-> NoErr, roots |-> <<>>, parentBlk |-> NilBlk, currentBlk |-> NilBlk,
              blkIndex |-> 0, varID |-> 0, parents |-> <<>>, funcs |-> <<>>, numTrans |-> 0]
    /\ walk = <<>>
    /\ tree = [b \in BlockIds |-> NoTree]
    /\ nci = [blk |-> NilBlk, offset |-> 0, varID |-> 0, next |-> 0]
    /\ todo = <<>>
    /\ modified = FALSE
    /\ result = "running"
    /\ nextId = 1
    /\ BatchIdle

CallZeroValueOf ==
    /\ pc = "zero"
    /\ zres = NoExpr
    /\ zres' = zeroValueOf(zty, znode)
    /\ UNCHANGED <<zty, znode>>
    /\ UNCHANGED <<pkgVars, batchVars>>

ZeroNext == CallZeroValueOf

ZeroSpec == ZeroInit /\ [][ZeroNext]_vars

\* ------------------------------------------------------------- strings and paths
\* A Go string is the sequence of its characters.

Slash == "/"

Dot == "."

DoubleQuote == "\""

\* strings.HasPrefix
HasPrefix(s, prefix) == Len(s) >= Len(prefix) /\ SubSeq(s, 1, Len(prefix)) = prefix

\* strings.HasSuffix
HasSuffix(s, suffix) ==
    Len(s) >= Len(suffix) /\ SubSeq(s, Len(s) - Len(suffix) + 1, Len(s)) = suffix

\* strings.TrimPrefix
TrimPrefix(s, prefix) == IF HasPrefix(s, prefix) THEN SubSeq(s, Len(prefix) + 1, Len(s)) ELSE s

\* strings.TrimSuffix
TrimSuffix(s, suffix) == IF HasSuffix(s, suffix) THEN SubSeq(s, 1, Len(s) - Len(suffix)) ELSE s

\* the elements of a path between its separators, empty ones included
RECURSIVE Split(_)
Split(s) ==
    IF \A i \in 1..Len(s) : s[i] # Slash THEN <<s>>
    ELSE LET i == CHOOSE j \in 1..Len(s) : s[j] = Slash /\ \A h \in 1..(j - 1) : s[h] # Slash
         IN <<SubSeq(s, 1, i - 1)>> \o Split(SubSeq(s, i + 1, Len(s)))

\* the elements put together again with one separator between two of them
RECURSIVE Unsplit(_)
Unsplit(es) ==
    IF es = <<>> THEN <<>>
    ELSE IF Len(es) = 1 THEN es[1]
    ELSE es[1] \o <<Slash>> \o Unsplit(Tail(es))

\* the elements of a path with ".", "" and "x/.." taken out (the loop of filepath.Clean)
RECURSIVE CleanElems(_, _, _)
CleanElems(es, out, rooted) ==
    IF es = <<>> THEN out
    ELSE LET e == es[1]
             rest == Tail(es)
         IN IF e = <<>> \/ e = <<Dot>> THEN CleanElems(rest, out, rooted)
            ELSE IF e = <<Dot, Dot>>
                 THEN IF out # <<>> /\ Last(out) # <<Dot, Dot>> THEN CleanElems(rest, Front(out), rooted)
                      ELSE IF rooted THEN CleanElems(rest, out, rooted)
                      ELSE CleanElems(rest, Append(out, e), rooted)
                 ELSE CleanElems(rest, Append(out, e), rooted)

\* the end of filepath.Clean: the cleaned elements of a rooted or relative path as a path
Rooted(rooted, body) ==
    IF rooted THEN <<Slash>> \o body
    ELSE IF body = <<>> THEN <<Dot>> ELSE body

\* filepath.Clean
Clean(s) ==
    IF s = <<>> THEN <<Dot>>
    ELSE Rooted(s[1] = Slash, Unsplit(CleanElems(Split(s), <<>>, s[1] = Slash)))

\* filepath.Join of two elements
Join(a, b) ==
    IF a = <<>> /\ b = <<>> THEN <<>>
    ELSE Clean(IF a = <<>> THEN b ELSE IF b = <<>> THEN a ELSE a \o <<Slash>> \o b)

\* s without its trailing separators
RECURSIVE TrimSlashes(_)
TrimSlashes(s) == IF s # <<>> /\ Last(s) = Slash THEN TrimSlashes(Front(s)) ELSE s

\* filepath.Base
Base(s) ==
    IF s = <<>> THEN <<Dot>>
    ELSE LET t == TrimSlashes(s)
         IN IF t = <<>> THEN <<Slash>> ELSE Last(Split(t))

\* filepath.Dir
Dir(s) ==
    IF \A i \in 1..Len(s) : s[i] # Slash THEN <<Dot>>
    ELSE LET i == CHOOSE j \in 1..Len(s) : s[j] = Slash /\ \A h \in (j + 1)..Len(s) : s[h] # Slash
         IN Clean(SubSeq(s, 1, i))

\* strconv.Quote of a string of letters, dots and slashes
Quote(s) == <<DoubleQuote>> \o s \o <<DoubleQuote>>

\* strconv.Unquote of an interpreted string literal
Unquote(q) ==
    IF /\ Len(q) >= 2
       /\ q[1] = DoubleQuote
       /\ Last(q) = DoubleQuote
       /\ \A i \in 2..(Len(q) - 1) : q[i] # DoubleQuote
    THEN [ok |-> TRUE, s |-> SubSeq(q, 2, Len(q) - 1)]
    ELSE [ok |-> FALSE, s |-> <<>>]

\* build.IsLocalImport
IsLocalImport(path) ==
    \/ path = <<Dot>>
    \/ path = <<Dot, Dot>>
    \/ HasPrefix(path, <<Dot, Slash>>)
    \/ HasPrefix(path, <<Dot, Dot, Slash>>)

\* ------------------------------------------------------------- a batch of packages: inputs
\* $GOPATH/src of build.Default
GoSrc == <<"/", "g">>

\* the packages that stand on the disk, by import path
PkgNames == {"a", "b", "c"}

\* the source directory of package n
SrcDir(n) == GoSrc \o <<Slash, n>>

\* the directories that stand on the disk before anything is written
OnDisk == {SrcDir(n) : n \in PkgNames}

\* the output directories a Gen is made with: under $GOPATH/src, outside of it, and the
\* directory that holds the sources themselves
OutDirs == {GoSrc \o <<Slash, "o">>, <<Slash, "t">>, GoSrc}

\* the base names of the files of a package
FileNames == <<"x", "y", "z">>

\* the import paths written in the sources: the packages a and b, a path that no directory
\* answers to, and two local imports
ImportPaths == {<<"a">>, <<"b">>, <<"n">>, <<Dot, Slash, "s">>, <<Dot, Dot, Slash, "a">>}

\* the import paths a file of package n may hold: a package does not import itself
ImportsOf(n) == ImportPaths \ {<<n>>}

\* the lists of at most max import paths of a file of package n
ImportLists(n, max) == UNION {[1..l -> ImportsOf(n)] : l \in 0..max}

\* an ast.File of package n: its import specs carry the quoted path and a node identity
File(n, f, paths) ==
    [name |-> f,
     imports |-> [i \in 1..Len(paths) |-> [value |-> Quote(paths[i]), node |-> <<n, f, i>>]]]

\* A package on the disk as far as a batch looks at it: its files, the number of
\* well-formed try() calls in it, and what is wrong with it ("pass1": a try() call that
\* phase 1 rejects, "type": code that fails the type check after phase 1).
Source(fs, points, fault) == [files |-> fs, points |-> points, fault |-> fault]

Faults == {"none", "pass1", "type"}

\* a package of one file without imports
Plain(n, points, fault) == Source(<<File(n, FileNames[1], <<>>)>>, points, fault)

PlainSources(n) ==
    {Plain(n, 0, "none"), Plain(n, 1, "none"), Plain(n, 0, "pass1"), Plain(n, 1, "type")}

\* a package of one file with at most one import
LightSources(n) ==
    {Source(<<File(n, FileNames[1], ps)>>, pt, "none") : ps \in ImportLists(n, 1), pt \in 0..1}

\* a package of up to MaxFiles files: up to MaxImports imports in the first file, fewer in
\* the other ones
FileLists(n) ==
    UNION {{[i \in 1..l |-> File(n, FileNames[i], pss[i])] :
               pss \in {q \in [1..l -> ImportLists(n, MaxImports)] :
                           \A i \in 2..l : Len(q[i]) < MaxImports}} :
           l \in 1..(IF MaxFiles < Len(FileNames) THEN MaxFiles ELSE Len(FileNames))}

FullSources(n) == {Source(fs, pt, "none") : fs \in FileLists(n), pt \in 0..1}

\* the lists of package directories: no directory twice
DirLists == UNION {{ds \in [1..l -> PkgNames] : \A i, j \in 1..l : ds[i] = ds[j] => i = j} :
                   l \in 1..(IF MaxPkgs < 3 THEN MaxPkgs ELSE 3)}

\* what the packages that are not looked at hold
Others(n) == Plain(n, 0, "none")

\* batches that differ in the imports of package b
ImportBatches ==
    {[dirs |-> ds, src |-> [n \in PkgNames |-> IF n = "b" THEN sb ELSE Others(n)]] :
        ds \in {<<"b">>, <<"a", "b">>, <<"b", "a">>}, sb \in FullSources("b")}

\* batches of two packages that both hold an import
LightBatches ==
    {[dirs |-> <<"a", "b">>,
      src |-> [n \in PkgNames |-> IF n = "a" THEN sa ELSE IF n = "b" THEN sb ELSE Others(n)]] :
        sa \in LightSources("a"), sb \in LightSources("b")}

PlainKinds == {<<0, "none">>, <<1, "none">>, <<0, "pass1">>, <<1, "type">>}

\* batches that differ in the try() calls and the faults of their packages
FaultBatches ==
    UNION {{[dirs |-> ds,
             src |-> [n \in PkgNames |-> IF n \in Range(ds) THEN Plain(n, g[n][1], g[n][2])
                                         ELSE Others(n)]] :
               g \in [Range(ds) -> PlainKinds]} :
           ds \in DirLists}

\* a local import stands in a file of the batch
HasLocalImport(b) ==
    \E i \in 1..Len(b.dirs) : \E f \in 1..Len(b.src[b.dirs[i]].files) :
        \E j \in 1..Len(b.src[b.dirs[i]].files[f].imports) :
            IsLocalImport(Unquote(b.src[b.dirs[i]].files[f].imports[j].value).s)

\* The arguments of a run and the machine it runs on: the package directories, what
\* stands in them, the output directory of the Gen, the verify flag, and whether
\* build.Context.Import looks for the directory of a local import (it depends on the Go
\* release).
BatchInputs ==
    UNION {{[dirs |-> b.dirs, src |-> b.src, outDir |-> o, verify |-> v, checksDir |-> c] :
               o \in OutDirs, v \in BOOLEAN,
               c \in IF HasLocalImport(b) THEN BOOLEAN ELSE {TRUE}} :
           b \in ImportBatches \cup LightBatches \cup FaultBatches}

\* ------------------------------------------------------------- a batch of packages: operators
\* the loop of Gen.outDirPath: the first of d, Dir(d), Dir(Dir(d)), ... that inpath starts with
RECURSIVE outDirRoot(_, _)
outDirRoot(inpath, d) == IF HasPrefix(inpath, d) THEN d ELSE outDirRoot(inpath, Dir(d))

\* Gen.outDirPath
outDirPath(outDir, inpath) == Join(outDir, TrimPrefix(inpath, outDirRoot(inpath, outDir)))

\* Node.Files of a package as parser.ParseDir returns it: the files by their source path
ParsedFiles(dir, src) ==
    LET byName(nm) == CHOOSE i \in 1..Len(src.files) : src.files[i].name = nm
    IN [key \in {Join(dir, <<src.files[i].name>>) : i \in 1..Len(src.files)} |->
           src.files[byName(Base(key)[1])]]

\* NewPackage
NewPackage(n, files, srcPath, destPath) ==
    [name |-> n, Files |-> files, Path |-> destPath, Birth |-> srcPath,
     Types |-> FALSE, modified |-> FALSE]

NoError == [msg |-> "nil"]

\* errors.Wrapf(err, "While translating %s", pkg.Birth)
WhileTranslating(birth, err) == [msg |-> "While translating", birth |-> birth, cause |-> err]

\* the end of build.Context.Import with build.FindOnly: the directory found for a path,
\* or an error when it has to stand on the disk and does not
Found(mustExist, dir) ==
    IF mustExist /\ dir \notin OnDisk THEN [ok |-> FALSE, dir |-> <<>>]
    ELSE [ok |-> TRUE, dir |-> dir]

\* build.Default.Import(path, srcDir, build.FindOnly) on machine e
CtxImport(e, path, srcDir) ==
    IF IsLocalImport(path) THEN Found(e.checksDir, Join(srcDir, path))
    ELSE Found(TRUE, Join(GoSrc, path))

\* importsFixer.errfAt
errfAt(fx, node, msg) == [fx EXCEPT !.errs = Append(@, [msg |-> msg, node |-> node])]

\* importsFixer.resolveImportPath after the cache has no entry: p is what the build
\* context returned
resolveImported(fx, path, p) ==
    IF ~p.ok THEN [fx |-> fx, ok |-> FALSE, dir |-> <<>>]
    ELSE [fx |-> [fx EXCEPT !.pathToDir = (path :> p.dir) @@ @], ok |-> TRUE, dir |-> p.dir]

\* importsFixer.resolveImportPath
resolveImportPath(fx, e, path, pkgDir) ==
    IF path \in DOMAIN fx.pathToDir
    THEN [fx |-> fx, ok |-> TRUE, dir |-> fx.pathToDir[path]]
    ELSE resolveImported(fx, path, CtxImport(e, path, pkgDir))

\* importsFixer.fixImport from the result r of resolveImportPath on: the fixer and
\* the import spec after the call, what the call returned, and a record of the call
fixResolved(spec, pkgDir, path, r) ==
    LET call == [node |-> spec.node, path |-> path, pkgDir |-> pkgDir, ok |-> r.ok,
                 dir |-> r.dir, prev |-> spec.value]
    IN IF ~r.ok
       THEN [fx |-> errfAt(r.fx, spec.node, "Cannot resolve import path"), spec |-> spec,
             fixed |-> FALSE, panic |-> FALSE, call |-> call]
       ELSE IF r.dir \notin DOMAIN r.fx.transMap
       THEN [fx |-> r.fx, spec |-> spec, fixed |-> FALSE, panic |-> FALSE, call |-> call]
       ELSE LET destDir == r.fx.transMap[r.dir]
                prefix == TrimSuffix(r.dir, path)
                transPath == TrimPrefix(destDir, prefix)
            IN [fx |-> [r.fx EXCEPT !.count = @ + 1],
                spec |-> [spec EXCEPT !.value = Quote(transPath)],
                fixed |-> TRUE, panic |-> FALSE, call |-> call]

\* importsFixer.fixImport from the result u of strconv.Unquote on
fixUnquoted(fx, e, spec, pkgDir, u) ==
    IF ~u.ok
    THEN [fx |-> fx, spec |-> spec, fixed |-> FALSE, panic |-> TRUE,
          call |-> [node |-> spec.node, path |-> <<>>, pkgDir |-> pkgDir, ok |-> FALSE,
                    dir |-> <<>>, prev |-> spec.value]]
    ELSE fixResolved(spec, pkgDir, u.s, resolveImportPath(fx, e, u.s, pkgDir))

\* importsFixer.fixImport
fixImport(fx, e, spec, pkgDir) == fixUnquoted(fx, e, spec, pkgDir, Unquote(spec.value))

\* The loops of importsFixer.fixPackage work on st = [fx, pkg, calls, panic]: the fixer,
\* the package, the fixImport calls made so far and whether one of them panicked.
\* variant: the package is not marked when an import was replaced
fixedImport_NoFlag(st, fpath, i, r) ==
    [fx |-> r.fx,
     pkg |-> [st.pkg EXCEPT !.Files[fpath].imports[i] = r.spec],
     calls |-> Append(st.calls, r.call @@ [fixed |-> r.fixed]),
     panic |-> r.panic]

\* The body of the inner loop: r is what fixImport returned for import spec i of the
\* file with key fpath
fixedImport(st, fpath, i, r) ==
    [fx |-> r.fx,
     pkg |-> [st.pkg EXCEPT !.Files[fpath].imports[i] = r.spec,
                            !.modified = IF r.fixed THEN TRUE ELSE @],
     calls |-> Append(st.calls, r.call @@ [fixed |-> r.fixed]),
     panic |-> r.panic]

\* the inner loop, from import spec i of the file on
RECURSIVE fixFile(_, _, _, _)
fixFile(st, e, fpath, i) ==
    IF st.panic \/ i > Len(st.pkg.Files[fpath].imports) THEN st
    ELSE fixFile(fixedImport(st, fpath, i,
                             fixImport(st.fx, e, st.pkg.Files[fpath].imports[i], st.pkg.Path)),
                 e, fpath, i + 1)

\* importsFixer.fixPackage, the files taken in the order fpaths
RECURSIVE fixPackage(_, _, _)
fixPackage(st, e, fpaths) ==
    IF st.panic \/ fpaths = <<>> THEN st
    ELSE fixPackage(fixFile(st, e, fpaths[1], 1), e, Tail(fpaths))

\* the orders in which a range loop may go over the keys of a map
MapOrders(keys) ==
    {q \in [1..Cardinality(keys) -> keys] : \A i, j \in 1..Cardinality(keys) : q[i] = q[j] => i = j}

\* what fixImports returns for the collected errors
fixImportsResult(errs) ==
    IF errs = <<>> THEN NoError
    ELSE IF Len(errs) = 1
    THEN [msg |-> "Import error while fixing import paths", entries |-> errs]
    ELSE [msg |-> "import error(s) while fixing import paths", count |-> Len(errs), entries |-> errs]

\* variant: the files stay under their source paths
Rekey_KeepKeys(pkg) == pkg

\* the second loop of Translate on one package: the files under their output paths
Rekey(pkg) ==
    LET outpath(path) == Join(pkg.Path, Base(path))
        keyOf(out) == CHOOSE path \in DOMAIN pkg.Files : outpath(path) = out
    IN [pkg EXCEPT !.Files = [out \in {outpath(path) : path \in DOMAIN pkg.Files} |->
                                 pkg.Files[keyOf(out)]]]

\* ------------------------------------------------------------- a batch of packages: GeneratePackages
\* a call that has not returned yet
Running == [msg |-> "running"]

NoFixer == [transMap |-> <<>>, pathToDir |-> <<>>, count |-> 0, errs |-> <<>>]

\* no package is under translation by the actions of translatePackage above
PkgIdle ==
    /\ stmts = [b \in ListIds |-> <<>>]
    /\ funcResults = <<>>
    /\ orig = stmts
    /\ pre = stmts
    /\ pc = "batch"
    /\ tce = [err |-> NoErr, roots |-> <<>>, parentBlk |-> NilBlk, currentBlk |-> NilBlk,
              blkIndex |-> 0, varID |-> 0, parents |-> <<>>, funcs |-> <<>>, numTrans |-> 0]
    /\ walk = <<>>
    /\ tree = [b \in BlockIds |-> NoTree]
    /\ nci = [blk |-> NilBlk, offset |-> 0, varID |-> 0, next |-> 0]
    /\ todo = <<>>
    /\ modified = FALSE
    /\ result = "running"
    /\ nextId = 1

ZeroIdle ==
    /\ zty = [kind |-> "none", basic |-> "", under |-> <<>>]
    /\ znode = "none"
    /\ zres = NoExpr

\* a Gen has been made by NewGen and GeneratePackages is called on it
BatchInit ==
    /\ \E b \in BatchInputs :
           /\ env = [src |-> b.src, checksDir |-> b.checksDir]
           /\ gen = [pc |-> "parse", k |-> 0, OutDir |-> b.outDir, verify |-> b.verify,
                     dirs |-> b.dirs, ret |-> Running, transRet |-> Running, out |-> <<>>]
    /\ pkgs = <<>>
    /\ fixer = NoFixer
    /\ disk = {}
    /\ hist = [events |-> <<>>, calls |-> <<>>, applied |-> <<>>, parsed |-> <<>>,
               fixRet |-> Running, wft |-> <<>>]
    /\ PkgIdle
    /\ ZeroIdle

Event(h, what, k) == [h EXCEPT !.events = Append(@, <<what, k>>)]

\* Gen.TranslatePackages up to its call of Translate: every directory is parsed and
\* made a Package
ParsePackages ==
    /\ gen.pc = "parse"
    /\ pkgs' = [i \in 1..Len(gen.dirs) |->
                   LET dir == SrcDir(gen.dirs[i])
                   IN NewPackage(gen.dirs[i], ParsedFiles(dir, env.src[gen.dirs[i]]), dir,
                                 outDirPath(gen.OutDir, dir))]
    /\ gen' = [gen EXCEPT !.pc = "pass1", !.k = 1]
    /\ hist' = [hist EXCEPT !.parsed = pkgs', !.applied = [i \in 1..Len(gen.dirs) |-> 0]]
    /\ UNCHANGED <<fixer, disk, env>>
    /\ UNCHANGED <<pkgVars, zeroVars>>

\* translatePackage has returned nil for package g.k: Translate goes on with the next
\* package, or with fixImports after the last one
NextPackage(g) ==
    IF g.k < Len(pkgs) THEN [g EXCEPT !.pc = "pass1", !.k = @ + 1]
    ELSE [g EXCEPT !.pc = "fix", !.k = 1]

\* variant: the error is kept and Translate goes on with the next package
Failed_GoOn(g, err) ==
    LET wrapped == WhileTranslating(pkgs[g.k].Birth, err)
    IN [NextPackage(g) EXCEPT !.transRet = wrapped, !.ret = wrapped]

\* translatePackage has returned err for package g.k: Translate returns it wrapped,
\* TranslatePackages and GeneratePackages hand it on
Failed(g, err) ==
    LET wrapped == WhileTranslating(pkgs[g.k].Birth, err)
    IN [g EXCEPT !.pc = "done", !.transRet = wrapped, !.ret = wrapped]

\* variant: the type check is called also when no translation point was recorded
BatchPass1_AlwaysCheck ==
    /\ gen.pc = "pass1"
    /\ LET s == env.src[pkgs[gen.k].name]
       IN gen' = IF s.fault = "pass1" THEN Failed(gen, "pass1")
                 ELSE [gen EXCEPT !.pc = "typecheck"]
    /\ hist' = Event(hist, "pass1", gen.k)
    /\ UNCHANGED <<pkgs, fixer, disk, env>>
    /\ UNCHANGED <<pkgVars, zeroVars>>

\* translatePackage, phase 1: the walk of the try() call elimination and what follows it
\* up to the type check
BatchPass1 ==
    /\ gen.pc = "pass1"
    /\ LET s == env.src[pkgs[gen.k].name]
       IN gen' = IF s.fault = "pass1" THEN Failed(gen, "pass1")
                 ELSE IF s.points = 0 THEN NextPackage(gen)
                 ELSE [gen EXCEPT !.pc = "typecheck"]
    /\ hist' = Event(hist, "pass1", gen.k)
    /\ UNCHANGED <<pkgs, fixer, disk, env>>
    /\ UNCHANGED <<pkgVars, zeroVars>>

\* translatePackage, the type check after phase 1
BatchTypeCheck ==
    /\ gen.pc = "typecheck"
    /\ gen' = IF env.src[pkgs[gen.k].name].fault = "type" THEN Failed(gen, "type")
              ELSE [gen EXCEPT !.pc = "pass2"]
    /\ hist' = Event(hist, "typecheck", gen.k)
    /\ UNCHANGED <<pkgs, fixer, disk, env>>
    /\ UNCHANGED <<pkgVars, zeroVars>>

\* translatePackage, phase 2 and the end of the function
BatchPass2 ==
    /\ gen.pc = "pass2"
    /\ pkgs' = [pkgs EXCEPT ![gen.k].modified = TRUE]
    /\ gen' = NextPackage(gen)
    /\ hist' = [Event(hist, "pass2", gen.k) EXCEPT
                   !.applied[gen.k] = env.src[pkgs[gen.k].name].points]
    /\ UNCHANGED <<fixer, disk, env>>
    /\ UNCHANGED <<pkgVars, zeroVars>>

\* fixImports up to its loop over the packages
FixImportsStart ==
    /\ gen.pc = "fix"
    /\ fixer' = [transMap |-> [birth \in {pkgs[i].Birth : i \in 1..Len(pkgs)} |->
                                  pkgs[CHOOSE i \in 1..Len(pkgs) : pkgs[i].Birth = birth].Path],
                 pathToDir |-> <<>>, count |-> 0, errs |-> <<>>]
    /\ gen' = [gen EXCEPT !.pc = "fixpkg", !.k = 1]
    /\ hist' = Event(hist, "fixImports", 0)
    /\ UNCHANGED <<pkgs, disk, env>>
    /\ UNCHANGED <<pkgVars, zeroVars>>

\* the state after importsFixer.fixPackage has ended as st on the next package
FixedPackage(st) ==
    /\ fixer' = st.fx
    /\ pkgs' = [pkgs EXCEPT ![gen.k] = st.pkg]
    /\ hist' = [Event(hist, "fixPackage", gen.k) EXCEPT !.calls = @ \o st.calls]
    /\ gen' = IF st.panic THEN [gen EXCEPT !.pc = "panic"]
              ELSE IF gen.k < Len(pkgs) THEN [gen EXCEPT !.k = @ + 1]
              ELSE [gen EXCEPT !.pc = "fixed"]

\* importsFixer.fixPackage on the next package; the files come in any order
FixPackage ==
    /\ gen.pc = "fixpkg"
    /\ \E fpaths \in MapOrders(DOMAIN pkgs[gen.k].Files) :
           FixedPackage(fixPackage([fx |-> fixer, pkg |-> pkgs[gen.k], calls |-> <<>>,
                                    panic |-> FALSE], env, fpaths))
    /\ UNCHANGED <<disk, env>>
    /\ UNCHANGED <<pkgVars, zeroVars>>

\* the end of fixImports and the rest of Translate: the value fixImports returns is
\* dropped, the files are put under their output paths, Translate returns nil and
\* TranslatePackages hands the packages to GeneratePackages
TranslateEnd ==
    /\ gen.pc = "fixed"
    /\ pkgs' = [i \in 1..Len(pkgs) |-> Rekey(pkgs[i])]
    /\ gen' = [gen EXCEPT !.pc = "write", !.k = 1, !.transRet = NoError]
    /\ hist' = [Event(hist, "rekey", 0) EXCEPT !.fixRet = fixImportsResult(fixer.errs)]
    /\ UNCHANGED <<fixer, disk, env>>
    /\ UNCHANGED <<pkgVars, zeroVars>>

\* the first loop of GeneratePackages on the next package: Package.Write, then the
\* destination is printed
WritePackage ==
    /\ gen.pc = "write"
    /\ disk' = disk \cup {[path |-> fpath, file |-> pkgs[gen.k].Files[fpath]] :
                             fpath \in DOMAIN pkgs[gen.k].Files}
    /\ gen' = LET g == [gen EXCEPT !.out = Append(@, pkgs[gen.k].Path)]
              IN IF gen.k < Len(pkgs) THEN [g EXCEPT !.k = @ + 1]
                 ELSE IF gen.verify THEN [g EXCEPT !.pc = "verify", !.k = 1]
                 ELSE [g EXCEPT !.pc = "done", !.ret = NoError]
    /\ hist' = Event(hist, "write", gen.k)
    /\ UNCHANGED <<pkgs, fixer, env>>
    /\ UNCHANGED <<pkgVars, zeroVars>>

\* variant: unmodified packages are type-checked as well
VerifyPackage_NoSkip ==
    /\ gen.pc = "verify"
    /\ LET after == IF gen.k < Len(pkgs) THEN [gen EXCEPT !.k = @ + 1]
                    ELSE [gen EXCEPT !.pc = "done", !.ret = NoError]
       IN \E ok \in BOOLEAN :
              /\ hist' = Event(hist, "verify", gen.k)
              /\ IF ok
                 THEN /\ gen' = after
                      /\ pkgs' = [pkgs EXCEPT ![gen.k].Types = TRUE]
                 ELSE /\ gen' = [gen EXCEPT !.pc = "done",
                                    !.ret = [msg |-> "Type error while verification after translation"]]
                      /\ UNCHANGED pkgs
    /\ UNCHANGED <<fixer, disk, env>>
    /\ UNCHANGED <<pkgVars, zeroVars>>

\* the second loop of GeneratePackages on the next package: an unmodified package is
\* skipped, a modified one is type-checked; whether the check finds errors depends on the
\* code of the package and of what it imports
VerifyPackage ==
    /\ gen.pc = "verify"
    /\ LET after == IF gen.k < Len(pkgs) THEN [gen EXCEPT !.k = @ + 1]
                    ELSE [gen EXCEPT !.pc = "done", !.ret = NoError]
       IN IF ~pkgs[gen.k].modified
          THEN /\ gen' = after
               /\ hist' = Event(hist, "skip", gen.k)
               /\ UNCHANGED pkgs
          ELSE \E ok \in BOOLEAN :
                   /\ hist' = Event(hist, "verify", gen.k)
                   /\ IF ok
                      THEN /\ gen' = after
                           /\ pkgs' = [pkgs EXCEPT ![gen.k].Types = TRUE]
                      ELSE /\ gen' = [gen EXCEPT !.pc = "done",
                                         !.ret = [msg |-> "Type error while verification after translation"]]
                           /\ UNCHANGED pkgs
    /\ UNCHANGED <<fixer, disk, env>>
    /\ UNCHANGED <<pkgVars, zeroVars>>

\* the paths a caller asks Package.WriteFileTo for: the source paths, the output paths
\* and a path of no file
AskedPaths(k) ==
    DOMAIN hist.parsed[k].Files \cup DOMAIN pkgs[k].Files \cup {<<Slash, "u">>}

\* Package.WriteFileTo on a package that Translate has returned
WriteFileTo ==
    /\ gen.pc = "done"
    /\ gen.transRet = NoError
    /\ hist.wft = <<>>
    /\ \E k \in 1..Len(pkgs) : \E fpath \in AskedPaths(k) :
           hist' = [hist EXCEPT !.wft =
                       IF fpath \in DOMAIN pkgs[k].Files
                       THEN [pkg |-> k, fpath |-> fpath, err |-> NoError,
                             written |-> <<pkgs[k].Files[fpath]>>]
                       ELSE [pkg |-> k, fpath |-> fpath, err |-> [msg |-> "No file translated for"],
                             written |-> <<>>]]
    /\ UNCHANGED <<gen, pkgs, fixer, disk, env>>
    /\ UNCHANGED <<pkgVars, zeroVars>>

BatchNext ==
    \/ ParsePackages
    \/ BatchPass1
    \/ BatchTypeCheck
    \/ BatchPass2
    \/ FixImportsStart
    \/ FixPackage
    \/ TranslateEnd
    \/ WritePackage
    \/ VerifyPackage
    \/ WriteFileTo

BatchSpec == BatchInit /\ [][BatchNext]_vars

\* ------------------------------------------------------------- Gen.outDirPath alone
\* the names of directories: one of them starts with another one
DirNames == {<<"r">>, <<"o">>, <<"o", "b">>, <<"d">>}

\* the absolute directory paths of at most MaxDepth elements
AbsDirs == {<<Slash>> \o Unsplit(es) : es \in UNION {[1..l -> DirNames] : l \in 1..MaxDepth}}

\* outDirPath is called on a Gen with an absolute OutDir for an absolute package directory;
\* gen.d is the variable d of the function and gen.n counts the passes of its loop
OutDirInit ==
    /\ \E outDir \in AbsDirs, inpath \in AbsDirs :
           gen = [pc |-> "loop", OutDir |-> outDir, inpath |-> inpath, d |-> outDir, n |-> 0,
                  ret |-> <<>>]
    /\ pkgs = <<>>
    /\ fixer = <<>>
    /\ disk = {}
    /\ env = <<>>
    /\ hist = <<>>
    /\ PkgIdle
    /\ ZeroIdle

\* one pass of the loop of outDirPath
OutDirLoop ==
    /\ gen.pc = "loop"
    /\ ~HasPrefix(gen.inpath, gen.d)
    /\ gen' = [gen EXCEPT !.d = Dir(@), !.n = @ + 1]
    /\ UNCHANGED <<pkgs, fixer, disk, env, hist>>
    /\ UNCHANGED <<pkgVars, zeroVars>>

\* the end of the loop and the rest of outDirPath
OutDirReturn ==
    /\ gen.pc = "loop"
    /\ HasPrefix(gen.inpath, gen.d)
    /\ gen' = [gen EXCEPT !.pc = "ret", !.ret = Join(gen.OutDir, TrimPrefix(gen.inpath, gen.d))]
    /\ UNCHANGED <<pkgs, fixer, disk, env, hist>>
    /\ UNCHANGED <<pkgVars, zeroVars>>

OutDirNext == OutDirLoop \/ OutDirReturn

OutDirSpec == OutDirInit /\ [][OutDirNext]_vars

\* ------------------------------------------------------------- claims
\* block b is the body of the function literal of the parsed program
LitBody(b) == b = ChildBlk /\ \E i \in 1..Len(orig[RootBlk]) : orig[RootBlk][i].kind = "GoStmt"

\* the result list of the innermost function declaration or function literal whose
\* body lexically contains block b
EnclosingResults(b) == IF LitBody(b) THEN FuncTypeResults(orig, FuncLit) ELSE funcResults

Ids(list) == [i \in 1..Len(list) |-> list[i].id]

Has(list, id) == \E i \in 1..Len(list) : list[i].id = id

Points(b) == tree[b].transPoints

\* phase 2 has applied every translation point of block b
Processed(b) ==
    /\ pc \in {"pass2", "done"}
    /\ tree[b].made
    /\ \A i \in 1..Len(Points(b)) : Points(b)[i].guard # 0
    /\ b = nci.blk => nci.next > Len(Points(b))

\* the points before point number i of block b that have the host statement of point i
EarlierOfHost(b, i) == {j \in 1..(i - 1) : Points(b)[j].node = Points(b)[i].node}

\* the statements of block b that were there when phase 2 started, in their present
\* order, the guard of an applied top-level-call point standing for its host
KeptOrder(b) ==
    LET hostOf(id) ==
            IF \E i \in 1..Len(Points(b)) :
                    Points(b)[i].kind = "ToplevelCall" /\ Points(b)[i].guard = id
            THEN (CHOOSE q \in Range(Points(b)) : q.kind = "ToplevelCall" /\ q.guard = id).node
            ELSE id
        mapped == [i \in 1..Len(stmts[b]) |-> hostOf(stmts[b][i].id)]
        old(id) == id \in Range(Ids(pre[b]))
    IN SelectSeq(mapped, old)

\* C1 as claimed: once phase 2 has processed a block, the guard of every value-spec
\* or assignment point is the statement right after its host statement, the guard of
\* a top-level-call point stands where its host stood, and the statements the block
\* had before phase 2 keep their order.
C1_GuardRightAfterHost ==
    \A b \in BlockIds :
        Processed(b) =>
            /\ KeptOrder(b) = Ids(pre[b])
            /\ \A i \in 1..Len(Points(b)) :
                   LET p == Points(b)[i]
                   IN p.kind # "ToplevelCall" =>
                          PosOf(stmts[b], p.guard) = PosOf(stmts[b], p.node) + 1

\* C1, the placement phase 2 does make: once it has processed a block, the guard of a value-spec or
\* assignment point follows its host statement with only the guards of the earlier
\* points of the same host statement in between (point number j of a host, counted
\* from 0, has its guard j + 1 places after the host); the guard of a top-level-call
\* point stands where its host stood; and the statements the block had before phase 2
\* keep their order.
C1_GuardFollowsHost ==
    \A b \in BlockIds :
        Processed(b) =>
            /\ KeptOrder(b) = Ids(pre[b])
            /\ \A i \in 1..Len(Points(b)) :
                   LET p == Points(b)[i]
                   IN p.kind # "ToplevelCall" =>
                          /\ Has(stmts[b], p.guard)
                          /\ Has(stmts[b], p.node)
                          /\ PosOf(stmts[b], p.guard) =
                                 PosOf(stmts[b], p.node) + 1 + Cardinality(EarlierOfHost(b, i))

\* a processed block that held a declaration of two try() specs, an assignment and a
\* top-level call
C1_Witness ==
    \E b \in BlockIds :
        /\ Processed(b)
        /\ pc = "done"
        /\ {"ValueSpec", "Assign", "ToplevelCall"} \subseteq {Points(b)[i].kind : i \in 1..Len(Points(b))}
        /\ \E i \in 1..Len(Points(b)) : EarlierOfHost(b, i) # {}

\* the statement node id as it is in block b now, and as it was when phase 2 started
Now(b, id) == stmts[b][PosOf(stmts[b], id)]

Was(b, id) == pre[b][PosOf(pre[b], id)]

IsErrName(e) == \E k \in 0..tce.numTrans : e = "_err" \o Itoa(k)

Applied(p) == p.guard # 0

\* point p of block b is a value spec or a `:=` assignment
Defines(b, p) == p.kind = "ValueSpec" \/ (p.kind = "Assign" /\ Was(b, p.node).tok = ":=")

\* point p of block b is an `=` assignment
Assigns(b, p) == p.kind = "Assign" /\ Was(b, p.node).tok = "="

\* C2: for an applied value-spec or `:=` point, exactly the last name (the blank of
\* phase 1) was replaced, by an identifier _errN; the other names and the called
\* function are as phase 1 left them; the guard of the point has no init statement,
\* tests that identifier and returns it as its last result.
C2_ErrIdentReplacesBlank ==
    \A b \in BlockIds : \A i \in 1..Len(Points(b)) :
        LET p == Points(b)[i]
        IN (Applied(p) /\ Defines(b, p)) =>
               LET now == Now(b, p.node).specs[p.spec]
                   was == Was(b, p.node).specs[p.spec]
                   guard == Now(b, p.guard)
                   e == Last(now.names)
               IN /\ Last(was.names) = "_"
                  /\ IsErrName(e)
                  /\ Len(now.names) = Len(was.names)
                  /\ Front(now.names) = Front(was.names)
                  /\ now.values = was.values
                  /\ Now(b, p.node).tok = Was(b, p.node).tok
                  /\ guard.kind = "IfStmt"
                  /\ guard.specs = <<>>
                  /\ guard.cond = e
                  /\ Last(guard.ret) = Ident(e)

\* phase 2 is through, and a block holds an applied value-spec point and an applied
\* `:=` point
C2_Witness ==
    /\ pc = "done"
    /\ \E b \in BlockIds : \E i, j \in 1..Len(Points(b)) :
           /\ Applied(Points(b)[i]) /\ Points(b)[i].kind = "ValueSpec"
           /\ Applied(Points(b)[j]) /\ Points(b)[j].kind = "Assign" /\ Defines(b, Points(b)[j])

\* what applying point p of block b adds to the length of the block
Growth(b, p) == IF p.kind = "ToplevelCall" THEN 0 ELSE IF Assigns(b, p) THEN 2 ELSE 1

RECURSIVE SumGrowth(_, _)
SumGrowth(b, i) ==
    IF i = 0 THEN 0
    ELSE SumGrowth(b, i - 1) + (IF Applied(Points(b)[i]) THEN Growth(b, Points(b)[i]) ELSE 0)

\* C3: for an applied `=` point the block holds, one after the other, a new
\* `var _errN error`, the host assignment with its trailing blank replaced by that
\* _errN and everything else as it was, and the guard on _errN; and the block is two
\* statements longer for every applied `=` point (one for every other applied
\* value-spec or `:=` point, none for a top-level call).
C3_DeclareAssignCheck ==
    \A b \in BlockIds :
        /\ (pc = "pass2" \/ modified) => Len(stmts[b]) = Len(pre[b]) + SumGrowth(b, Len(Points(b)))
        /\ \A i \in 1..Len(Points(b)) :
               LET p == Points(b)[i]
               IN (Applied(p) /\ Assigns(b, p)) =>
                      LET at == PosOf(stmts[b], p.node)
                          host == stmts[b][at]
                          was == Was(b, p.node)
                          e == Last(host.specs[1].names)
                      IN /\ at > 1
                         /\ at < Len(stmts[b])
                         /\ IsErrName(e)
                         /\ stmts[b][at - 1].kind = "DeclStmt"
                         /\ stmts[b][at - 1].tok = "var"
                         /\ stmts[b][at - 1].specs = <<Binding(<<e>>, "error", <<>>)>>
                         /\ ~Has(pre[b], stmts[b][at - 1].id)
                         /\ Last(was.specs[1].names) = "_"
                         /\ Front(host.specs[1].names) = Front(was.specs[1].names)
                         /\ host.specs[1].values = was.specs[1].values
                         /\ host.tok = "="
                         /\ stmts[b][at + 1].id = p.guard
                         /\ stmts[b][at + 1].kind = "IfStmt"
                         /\ stmts[b][at + 1].cond = e

\* phase 2 is through, and an `=` point was applied after another point of its block
C3_Witness ==
    /\ pc = "done"
    /\ \E b \in BlockIds : \E i \in 2..Len(Points(b)) :
           Applied(Points(b)[i]) /\ Assigns(b, Points(b)[i])

\* the step of phase 2 that applies a top-level-call point and returns
ToplevelStep ==
    /\ pc = "pass2"
    /\ nci.next > 0
    /\ nci.next <= Len(Points(nci.blk))
    /\ Points(nci.blk)[nci.next].kind = "ToplevelCall"
    /\ pc' = "pass2"
    /\ nci'.next = nci.next + 1

\* C4: applying a top-level-call point removes the host expression statement and
\* puts one new `if <init>; err != nil`, whose init assigns the inner call, at the
\* index the host had; the block keeps its length and every other statement its index.
C4_GuardReplacesCallStmt ==
    [][ToplevelStep =>
          LET b == nci.blk
              p == Points(b)[nci.next]
              l == stmts[b]
              l2 == stmts'[b]
              at == PosOf(l, p.node)
          IN /\ Has(l, p.node)
             /\ l[at].kind = "ExprStmt"
             /\ at = p.blockIndex + nci.offset + 1
             /\ Len(l2) = Len(l)
             /\ \A i \in 1..Len(l) : i # at => l2[i] = l[i]
             /\ ~Has(l2, p.node)
             /\ ~Has(l, l2[at].id)
             /\ l2[at].kind = "IfStmt"
             /\ Len(l2[at].specs) = 1
             /\ l2[at].specs[1].values = <<p.call>>
             /\ Last(l2[at].specs[1].names) = "err"
             /\ l2[at].cond = "err"
             /\ Last(l2[at].ret) = Ident("err")
             /\ nci'.offset = nci.offset]_vars

\* a top-level-call point was applied after another point of its block, and its guard
\* stands between two other statements
C4_Witness ==
    \E b \in BlockIds : \E i \in 2..Len(Points(b)) :
        LET p == Points(b)[i]
        IN /\ Applied(p)
           /\ p.kind = "ToplevelCall"
           /\ Has(stmts[b], p.guard)
           /\ PosOf(stmts[b], p.guard) > 1
           /\ PosOf(stmts[b], p.guard) < Len(stmts[b])
           /\ ~Has(stmts[b], p.node)

\* C5 as claimed: the init assignment of the guard of an applied top-level-call point
\* has as many identifiers as the inner call has result values: blanks, then `err`.
C5_InitArityIsCallArity ==
    \A b \in BlockIds : \A i \in 1..Len(Points(b)) :
        LET p == Points(b)[i]
        IN (Applied(p) /\ p.kind = "ToplevelCall") =>
               LET names == Now(b, p.guard).specs[1].names
               IN /\ Len(names) = Len(CalleeResults[p.call.name])
                  /\ Last(names) = "err"
                  /\ \A k \in 1..(Len(names) - 1) : names[k] = "_"

\* the field of result list fl that declares result number i (0-based)
RECURSIVE FieldOfResult(_, _)
FieldOfResult(fl, i) ==
    LET n == IF Len(fl[1].names) = 0 THEN 1 ELSE Len(fl[1].names)
    IN IF i < n THEN fl[1] ELSE FieldOfResult(Tail(fl), i - n)

\* the expressions the guard of a function with result list fl has to return
ExpectedRet(fl, e) ==
    LET n == Len(SignatureResults(fl))
    IN [i \in 1..n |->
            IF i = n THEN Ident(e)
            ELSE zeroValueOf(Resolve(FieldOfResult(fl, i - 1).type), FieldOfResult(fl, i - 1).type)]

\* phase 2 stopped in the middle of a block
Phase2Aborted == pc = "panic" /\ nci.next > 0

\* C6 as claimed: the guard of every translation point returns, for each result of the
\* enclosing function but the last, the zero value of that result built from that
\* result's own type and type node, and then the error identifier; phase 2 builds such
\* a guard for every result list phase 1 accepted.
C6_GuardReturnsZeroValues ==
    /\ ~Phase2Aborted
    /\ \A b \in BlockIds : \A i \in 1..Len(Points(b)) :
           LET p == Points(b)[i]
           IN Applied(p) =>
                  Now(b, p.guard).ret = ExpectedRet(EnclosingResults(b), Now(b, p.guard).cond)

IntegerKinds ==
    {"Int", "Int8", "Int16", "Int32", "Int64", "Uint", "Uint8", "Uint16", "Uint32", "Uint64",
     "Uintptr", "UntypedInt"}

\* the table of zero values by type family; a named type that is no struct has the
\* entry of its underlying type
ZeroTable(ty, typeNode) ==
    LET t == IF ty.kind = "Named" /\ ty.under[1].kind # "Struct" THEN ty.under[1] ELSE ty
    IN CASE t.kind = "Basic" /\ t.basic \in {"Bool", "UntypedBool"} -> Ident("false")
         [] t.kind = "Basic" /\ t.basic \in IntegerKinds -> BasicLit("INT", "0")
         [] t.kind = "Basic" /\ t.basic \in {"Float32", "Float64", "UntypedFloat"} -> BasicLit("FLOAT", "0.0")
         [] t.kind = "Basic" /\ t.basic \in {"Complex64", "Complex128", "UntypedComplex"} -> BasicLit("IMAG", "0i")
         [] t.kind = "Basic" /\ t.basic \in {"String", "UntypedString"} -> BasicLit("STRING", "\"\"")
         [] t.kind = "Basic" /\ t.basic \in {"UnsafePointer", "UntypedNil"} -> Ident("nil")
         [] t.kind = "Basic" /\ t.basic = "UntypedRune" -> BasicLit("CHAR", "'\\0'")
         [] t.kind \in {"Slice", "Pointer", "Signature", "Interface", "Map", "Chan"} -> Ident("nil")
         [] t.kind \in {"Struct", "Array", "Named"} -> CompositeLit(typeNode)
         [] OTHER -> Panic("Cannot obtain zero value of tuple")

\* the types the table has an entry for
InZeroTable(ty) ==
    /\ ty.kind = "Basic" => ty.basic # "Invalid"
    /\ ty.kind = "Named" => (ty.under[1].kind = "Basic" => ty.under[1].basic # "Invalid")

\* C7 as claimed: zeroValueOf returns the entry of the table for the type family of its
\* argument (a rune literal for untyped rune, an abort for a tuple); in particular the
\* integer literal 0 for every integer kind.
C7_ZeroValueIsTableEntry ==
    (zres # NoExpr /\ InZeroTable(zty)) =>
        /\ zres.op = ZeroTable(zty, znode).op
        /\ zres.op # "CHAR" => zres = ZeroTable(zty, znode)

\* the number of value-spec and assignment points before point number i of block b
Ordinal(b, i) == Cardinality({j \in 1..(i - 1) : Points(b)[j].kind # "ToplevelCall"})

\* the error identifier of the applied point p of block b
ErrNameOf(b, p) == Now(b, p.guard).cond

\* the applied value-spec and assignment points, as pairs of block and point number
NamedPoints ==
    {x \in BlockIds \X (1..(2 * MaxStmts)) :
        /\ x[2] <= Len(Points(x[1]))
        /\ Applied(Points(x[1])[x[2]])
        /\ Points(x[1])[x[2]].kind # "ToplevelCall"}

\* C8 as claimed: two points of different blocks never have the same _errN.
C8_BlocksNeverShareErrName ==
    \A x, y \in NamedPoints :
        x[1] # y[1] => ErrNameOf(x[1], Points(x[1])[x[2]]) # ErrNameOf(y[1], Points(y[1])[y[2]])

\* C8 as amended: the _errN of a point is fixed by its own block alone, so two points of
\* different blocks have the same _errN exactly when they have the same ordinal among
\* the value-spec and assignment points of their blocks.
C8_BlocksNumberAlone ==
    \A x, y \in NamedPoints :
        x[1] # y[1] =>
            (ErrNameOf(x[1], Points(x[1])[x[2]]) = ErrNameOf(y[1], Points(y[1])[y[2]])
                 <=> Ordinal(x[1], x[2]) = Ordinal(y[1], y[2]))

\* phase 2 is through; two points of different blocks have the same _errN, and two
\* others have not
C8_Witness ==
    /\ pc = "done"
    /\ \E x, y \in NamedPoints :
           /\ x[1] # y[1]
           /\ ErrNameOf(x[1], Points(x[1])[x[2]]) = ErrNameOf(y[1], Points(y[1])[y[2]])
    /\ \E x, y \in NamedPoints :
           /\ x[1] # y[1]
           /\ ErrNameOf(x[1], Points(x[1])[x[2]]) # ErrNameOf(y[1], Points(y[1])[y[2]])

\* C9: in a block, the counter is 0 when phase 2 enters it and counts the value-spec and
\* assignment points applied so far; the k-th of these (from 0, in statement order) has
\* the name _err<k>, so that the names of a block are pairwise distinct; a
\* top-level-call point has the name err and takes no number.
C9_ErrNamesNumberedInBlock ==
    /\ (pc = "pass2" /\ nci.next > 0) => nci.varID = Ordinal(nci.blk, nci.next)
    /\ \A b \in BlockIds : \A i \in 1..Len(Points(b)) :
           LET p == Points(b)[i]
           IN Applied(p) =>
                  /\ p.kind = "ToplevelCall" => ErrNameOf(b, p) = "err"
                  /\ p.kind # "ToplevelCall" =>
                         /\ ErrNameOf(b, p) = "_err" \o Itoa(Ordinal(b, i))
                         /\ Last(Now(b, p.node).specs[p.spec].names) = ErrNameOf(b, p)
                         /\ \A j \in 1..(i - 1) : ErrNameOf(b, Points(b)[j]) # ErrNameOf(b, p)
                  /\ \A j \in 1..(i - 1) : Points(b)[j].blockIndex <= p.blockIndex

\* phase 2 is through, and a block has a top-level-call point between two applied
\* value-spec or assignment points
C9_Witness ==
    /\ pc = "done"
    /\ \E b \in BlockIds : \E i, j, k \in 1..Len(Points(b)) :
           /\ i < j /\ j < k
           /\ Points(b)[i].kind # "ToplevelCall"
           /\ Points(b)[j].kind = "ToplevelCall"
           /\ Points(b)[k].kind # "ToplevelCall"
           /\ \A n \in {i, j, k} : Applied(Points(b)[n])

\* program p has no call of try
NoTry(p) ==
    \A b \in BlockIds : \A i \in 1..Len(p[b]) : \A s \in 1..Len(p[b][i].specs) :
        \A v \in 1..Len(p[b][i].specs[s].values) : ~HasTry(p[b][i].specs[s].values[v])

\* C10 as claimed: for a package without a call of try the translation changes nothing:
\* the AST stays as parsed, no translation point is recorded, neither the type check nor
\* phase 2 runs, and the package is not marked as modified.
C10_NoTryIsFixedPoint ==
    NoTry(orig) =>
        /\ stmts = orig
        /\ tce.numTrans = 0
        /\ pc \notin {"typecheck", "pass2"}
        /\ ~modified
        /\ \A b \in BlockIds : tree[b].made => Points(b) = <<>>

\* the messages of the errors checkTryCall sets
CheckMsgs ==
    [args |-> "try() should take 1 argument",
     call |-> "try() call's argument must be function call",
     outside |-> "try() function is used outside function",
     nothing |-> "The function returns nothing. try() is not available",
     last |-> "The function does not return error as last return value"]

\* checkTryCall has set the error of phase 1
Rejected == \E k \in DOMAIN CheckMsgs : tce.err.msg = CheckMsgs[k]

\* the list of ast that holds the statement or declaration node id
ListOf(ast, id) == CHOOSE b \in ListIds : Has(ast[b], id)

\* the reasons for which a call e of try that stands in list b is to be rejected
Defects(e, b) ==
    {k \in DOMAIN CheckMsgs :
        \/ k = "args" /\ Len(e.args) # 1
        \/ k = "call" /\ Len(e.args) = 1 /\ e.args[1].op # "call"
        \/ k = "outside" /\ b = FileLevel
        \/ k = "nothing" /\ EnclosingResults(b) = <<>>
        \/ k = "last" /\ EnclosingResults(b) # <<>> /\ Last(EnclosingResults(b)).type # "error"}

IsTryCall(e) == e.op = "call" /\ e.name = "try"

\* the walk of phase 1 is over
Walked == pc \in {"walked", "typecheck", "pass2", "done", "panic"}

\* the number of translation points recorded in the block trees
NumPoints == Len(Points(RootBlk)) + Len(Points(ChildBlk))

\* C12: a call of try that is the one value of a spec, of a block-level assignment or
\* of a block-level expression statement and has one of the defects (a) to (e) makes
\* phase 1 end with an error; when checkTryCall has set the error, the error names the
\* place of a call of try that has the defect the message tells, that call is still
\* there with the names of its statement as they were (no blank appended), no
\* translation point is recorded for it, numTrans counts the recorded points only,
\* and translatePackage returns this error without type check, phase 2 or the
\* modified flag.
C12_BadTryCallRejected ==
    /\ Walked =>
           \A b \in ListIds : \A i \in 1..Len(orig[b]) : \A j \in 1..Len(orig[b][i].specs) :
               LET sp == orig[b][i].specs[j]
               IN (Len(sp.values) = 1 /\ IsTryCall(sp.values[1]) /\ Defects(sp.values[1], b) # {})
                      => tce.err # NoErr
    /\ Rejected =>
           LET node == tce.err.pos[1]
               spec == tce.err.pos[2]
               b == ListOf(stmts, node)
               st == stmts[b][PosOf(stmts[b], node)]
               e == st.specs[spec].values[1]
           IN /\ \E c \in ListIds : Has(stmts[c], node)
              /\ IsTryCall(e)
              /\ \E k \in Defects(e, b) : tce.err.msg = CheckMsgs[k]
              /\ \E c \in ListIds : \E i \in 1..Len(orig[c]) : \E j \in 1..Len(orig[c][i].specs) :
                     orig[c][i].specs[j].values = <<e>>
              /\ Has(orig[b], node) => st.specs[spec] = orig[b][PosOf(orig[b], node)].specs[spec]
              /\ \A n \in 1..Len(st.specs[spec].names) : st.specs[spec].names[n] # "_"
              /\ \A c \in BlockIds : \A i \in 1..Len(Points(c)) :
                     ~(Points(c)[i].node = node /\ Points(c)[i].spec = spec)
              /\ tce.numTrans = NumPoints
              /\ pc \notin {"typecheck", "pass2"}
              /\ ~modified
              /\ pc = "done" => result = tce.err.msg

\* translatePackage has returned the error of a call of try with an argument that is
\* no call, met after one translation point was recorded
C12_Witness ==
    /\ pc = "done"
    /\ tce.err.msg = CheckMsgs["call"]
    /\ result = tce.err.msg
    /\ tce.numTrans = 1

\* a call of try somewhere in the lists ast
TryRemains(ast) ==
    \E b \in ListIds : \E i \in 1..Len(ast[b]) : \E j \in 1..Len(ast[b][i].specs) :
        \E v \in 1..Len(ast[b][i].specs[j].values) : HasTry(ast[b][i].specs[j].values[v])

\* C13 as claimed: when the walk of phase 1 has ended without error, no call of try is
\* left anywhere in the AST, the arguments of a translated try() call included.
C13_NoTryLeftAfterPass1 == (Walked /\ tce.err = NoErr) => ~TryRemains(stmts)

\* statement number i of block b, as parsed, is `x op= try(f(...))`
CompoundTry(b, i) ==
    /\ orig[b][i].kind = "AssignStmt"
    /\ orig[b][i].tok \notin {":=", "="}
    /\ IsTryCall(orig[b][i].specs[1].values[1])

\* the statements of block b that phase 1 has put there
InsertedByPhase1(b) == {i \in 1..Len(stmts[b]) : ~Has(orig[b], stmts[b][i].id)}

AllTriesWellFormed ==
    /\ orig[FileLevel] = <<>>
    /\ \A b \in BlockIds : EnclosingResults(b) # <<>> /\ Last(EnclosingResults(b)).type = "error"
    /\ \A b \in BlockIds : \A i \in 1..Len(orig[b]) : \A j \in 1..Len(orig[b][i].specs) :
           \A v \in 1..Len(orig[b][i].specs[j].values) :
               LET e == orig[b][i].specs[j].values[v]
               IN HasTry(e) => /\ IsTryCall(e)
                               /\ Len(e.args) = 1
                               /\ e.args[1].op = "call"
                               /\ ~HasTry(e.args[1])

CalleeLacksError(e) ==
    /\ IsTryCall(e)
    /\ Len(e.args) = 1
    /\ e.args[1].op = "call"
    /\ e.args[1].name \in Callees
    /\ LET rs == CalleeResults[e.args[1].name]
       IN rs = <<>> \/ Last(rs) # "error"

\* the parsed program holds a try() call of a function that does not return error last
HasIllFormedCallee ==
    \E b \in ListIds : \E i \in 1..Len(orig[b]) : \E j \in 1..Len(orig[b][i].specs) :
        \E v \in 1..Len(orig[b][i].specs[j].values) :
            CalleeLacksError(orig[b][i].specs[j].values[v])

\* C15: when the function called in try(...) does not return error as the last of its
\* return values, the translation of the package ends with an error and the package is
\* not reported as translated.
C15_CalleeWithoutErrorDetected ==
    (pc = "done" /\ HasIllFormedCallee) => (result # "nil" /\ ~modified)

\* ------------------------------------------------------------- claims on a batch of packages
\* Translate has returned
Translated == gen.transRet # Running

\* Translate has returned nil
TranslatedOK == gen.transRet = NoError

\* the fixImport calls on import specs of package k that replaced the path
Rewritten(k) ==
    {i \in 1..Len(hist.calls) : hist.calls[i].node[1] = pkgs[k].name /\ hist.calls[i].fixed}

\* the fixImport calls on import specs of package k
Examined(k) == {i \in 1..Len(hist.calls) : hist.calls[i].node[1] = pkgs[k].name}

Is(j, what, k) == j \in 1..Len(hist.events) /\ hist.events[j] = <<what, k>>

\* `what` has happened on package k before event number i
Earlier(what, k, i) == \E j \in 1..(i - 1) : Is(j, what, k)

\* translatePackage returns an error for package n
Fails(n) ==
    \/ env.src[n].fault = "pass1"
    \/ env.src[n].fault = "type" /\ env.src[n].points > 0

\* C16: the type checker is called for a package only right after its phase 1 ended
\* without error and with at least one translation point; phase 2 starts only right after
\* that type check returned no error; the import fixer starts only after translatePackage
\* has returned nil for every package of the batch, and works on a package only after it
\* has started; no phase is entered twice for a package.
C16_PhasesInOrder ==
    \A i \in 1..Len(hist.events) :
        LET what == hist.events[i][1]
            k == hist.events[i][2]
        IN /\ what = "typecheck" =>
                  /\ Is(i - 1, "pass1", k)
                  /\ env.src[pkgs[k].name].fault # "pass1"
                  /\ env.src[pkgs[k].name].points > 0
           /\ what = "pass2" =>
                  /\ Is(i - 1, "typecheck", k)
                  /\ env.src[pkgs[k].name].fault # "type"
           /\ what = "fixImports" =>
                  \A j \in 1..Len(pkgs) :
                      /\ Earlier("pass1", j, i)
                      /\ ~Fails(pkgs[j].name)
                      /\ env.src[pkgs[j].name].points > 0 => Earlier("pass2", j, i)
           /\ what = "fixPackage" => Earlier("fixImports", 0, i)
           /\ what \in {"pass1", "typecheck", "pass2", "fixImports", "fixPackage"} =>
                  ~Earlier(what, k, i)

\* the import fixer has started on a batch in which one package went through the type
\* check and phase 2 and another one had no try() call
C16_Witness ==
    /\ \E i \in 1..Len(hist.events) : Is(i, "fixImports", 0)
    /\ \E k, j \in 1..Len(pkgs) :
           /\ \E i \in 1..Len(hist.events) : Is(i, "pass2", k)
           /\ env.src[pkgs[j].name].points = 0

\* the events of the history that concern a package after package k
LaterEvents(k) == {i \in 1..Len(hist.events) : hist.events[i][2] > k}

\* C17: Translate goes through the packages in slice order and returns at the first
\* package whose translation fails, with the error wrapped as "While translating
\* <Birth>"; then no later package was translated, the import fixer did not run, no Files
\* map was re-keyed, and GeneratePackages has returned the error without writing a file
\* or printing a destination for any package.
C17_FirstFailureStopsBatch ==
    /\ \A i, j \in 1..Len(hist.events) :
           (i < j /\ hist.events[j][1] \in {"pass1", "typecheck", "pass2"}) =>
               hist.events[i][2] <= hist.events[j][2]
    /\ (\E k \in 1..Len(pkgs) : Fails(pkgs[k].name)) => gen.transRet # NoError
    /\ (Translated /\ ~TranslatedOK) =>
           \E k \in 1..Len(pkgs) :
               /\ Fails(pkgs[k].name)
               /\ \A j \in 1..(k - 1) : ~Fails(pkgs[j].name)
               /\ gen.transRet = WhileTranslating(pkgs[k].Birth, env.src[pkgs[k].name].fault)
               /\ LaterEvents(k) = {}
               /\ \A i \in 1..Len(hist.events) :
                      hist.events[i][1] \in {"pass1", "typecheck", "pass2"}
               /\ fixer = NoFixer
               /\ \A j \in 1..Len(pkgs) : pkgs[j].Files = hist.parsed[j].Files
               /\ gen.pc = "done"
               /\ gen.ret = gen.transRet
               /\ disk = {}
               /\ gen.out = <<>>

\* GeneratePackages has returned the error of the second of three packages, after the
\* first one was translated through phase 2
C17_Witness ==
    /\ gen.pc = "done"
    /\ Len(pkgs) = 3
    /\ gen.ret = WhileTranslating(pkgs[2].Birth, "type")
    /\ pkgs[1].modified
    /\ env.src[pkgs[3].name].points > 0

\* the output paths of the files of package k: Join(pkg.Path, Base(path)) of every parsed
\* file
OutKeys(k) == {Join(pkgs[k].Path, Base(path)) : path \in DOMAIN hist.parsed[k].Files}

\* after Translate returned nil, Node.Files of every package holds one entry per parsed
\* file, under its output path, for the same file
FilesRekeyed ==
    \A k \in 1..Len(pkgs) :
        /\ DOMAIN pkgs[k].Files = OutKeys(k)
        /\ Cardinality(DOMAIN pkgs[k].Files) = Cardinality(DOMAIN hist.parsed[k].Files)
        /\ \A path \in DOMAIN hist.parsed[k].Files :
               pkgs[k].Files[Join(pkgs[k].Path, Base(path))].name = hist.parsed[k].Files[path].name

\* a call of WriteFileTo wrote the file kept under fpath when fpath is an output path, and
\* returned the "No file translated" error and wrote nothing for any other path
WroteExactlyKeys ==
    hist.wft # <<>> =>
        IF hist.wft.fpath \in OutKeys(hist.wft.pkg)
        THEN /\ hist.wft.err = NoError
             /\ hist.wft.written = <<pkgs[hist.wft.pkg].Files[hist.wft.fpath]>>
        ELSE /\ hist.wft.err = [msg |-> "No file translated for"]
             /\ hist.wft.written = <<>>

\* C18 as claimed: after Translate returned nil every Files map holds exactly one entry
\* per parsed file, keyed by Join(pkg.Path, Base(path)), for the same file; WriteFileTo
\* writes exactly for these keys, and for the source path of a file it returns the
\* "No file translated" error and writes nothing.
C18_SourcePathNeverWritten ==
    TranslatedOK =>
        /\ FilesRekeyed
        /\ WroteExactlyKeys
        /\ (hist.wft # <<>> /\ hist.wft.fpath \in DOMAIN hist.parsed[hist.wft.pkg].Files) =>
               /\ hist.wft.err = [msg |-> "No file translated for"]
               /\ hist.wft.written = <<>>

\* C18 as amended: the same, but the source path of a file is refused exactly when the
\* destination directory of the package differs from its source directory; for a package
\* translated in place the source paths are the keys and WriteFileTo writes the file.
C18_SourcePathWrittenInPlaceOnly ==
    TranslatedOK =>
        /\ FilesRekeyed
        /\ WroteExactlyKeys
        /\ (hist.wft # <<>> /\ hist.wft.fpath \in DOMAIN hist.parsed[hist.wft.pkg].Files) =>
               (hist.wft.written = <<>> <=> pkgs[hist.wft.pkg].Path # pkgs[hist.wft.pkg].Birth)

\* WriteFileTo was asked for the source path of a file of a package translated in place
\* and has written the file
C18_Witness ==
    /\ TranslatedOK
    /\ hist.wft # <<>>
    /\ hist.wft.fpath \in DOMAIN hist.parsed[hist.wft.pkg].Files
    /\ pkgs[hist.wft.pkg].Path = pkgs[hist.wft.pkg].Birth
    /\ hist.wft.written # <<>>
    /\ Cardinality(DOMAIN pkgs[hist.wft.pkg].Files) = 2

\* the import fixer has gone over every package
ImportsFixed == \E i \in 1..Len(hist.events) : Is(i, "rekey", 0)

\* the import spec with node identity nd as it stands in the package now
SpecNow(k, nd) ==
    LET fpath == CHOOSE p \in DOMAIN pkgs[k].Files : pkgs[k].Files[p].name = nd[2]
    IN pkgs[k].Files[fpath].imports[nd[3]]

\* the directory an import path written in a file of directory dir stands for
Denotes(path, dir) == IF IsLocalImport(path) THEN Join(dir, path) ELSE Join(GoSrc, path)

\* C19: when an import of a package B of the batch stands for the source directory of a
\* package A of the batch, then after import fixing the import string of B differs from
\* the original one, is no absolute path, and stands for the destination directory of A.
C19_ImportPointsToDestination ==
    ImportsFixed =>
        \A i \in 1..Len(hist.calls) : \A kb, ka \in 1..Len(pkgs) :
            LET c == hist.calls[i]
                now == Unquote(SpecNow(kb, c.node).value)
            IN (c.node[1] = pkgs[kb].name /\ Denotes(c.path, pkgs[kb].Birth) = pkgs[ka].Birth) =>
                   /\ SpecNow(kb, c.node).value # c.prev
                   /\ now.ok
                   /\ now.s # <<>>
                   /\ now.s[1] # Slash
                   /\ Denotes(now.s, pkgs[kb].Path) = pkgs[ka].Path

\* the import specs whose path could not be resolved
Unresolved == {i \in 1..Len(hist.calls) : ~hist.calls[i].ok}

\* every import spec of every file of every package was looked at once
AllImportsExamined ==
    /\ {hist.calls[i].node : i \in 1..Len(hist.calls)} =
           UNION {UNION {{hist.parsed[k].Files[p].imports[j].node :
                             j \in 1..Len(hist.parsed[k].Files[p].imports)} :
                         p \in DOMAIN hist.parsed[k].Files} :
                  k \in 1..Len(pkgs)}
    /\ \A i, j \in 1..Len(hist.calls) : hist.calls[i].node = hist.calls[j].node => i = j

\* the import fixer has collected one error per unresolved import spec, in the order of
\* the calls, and turns them into one error (nil when there is none)
ErrorsCollected ==
    /\ Len(fixer.errs) = Cardinality(Unresolved)
    /\ \A i \in Unresolved : \E n \in 1..Len(fixer.errs) : fixer.errs[n].node = hist.calls[i].node
    /\ hist.fixRet = NoError <=> Unresolved = {}
    /\ hist.fixRet # NoError => hist.fixRet.entries = fixer.errs

\* C20: when import paths cannot be resolved, import fixing still looks at every import
\* spec of every file of every package, and the caller of Translate receives a non-nil
\* error with one entry per unresolved import spec; when every import resolves, no error
\* is reported.
C20_ImportErrorsReported ==
    (ImportsFixed /\ Translated) =>
        /\ AllImportsExamined
        /\ ErrorsCollected
        /\ Unresolved = {} => gen.transRet = NoError
        /\ Unresolved # {} =>
               /\ gen.transRet # NoError
               /\ gen.transRet = hist.fixRet

\* the packages the type check of the verification was run on
Verified == {k \in 1..Len(pkgs) : \E i \in 1..Len(hist.events) : Is(i, "verify", k)}

\* the packages the verification loop passed over
Skipped == {k \in 1..Len(pkgs) : \E i \in 1..Len(hist.events) : Is(i, "skip", k)}

ModifiedPkgs == {k \in 1..Len(pkgs) : pkgs[k].modified}

VerifyError == [msg |-> "Type error while verification after translation"]

\* every file of every package stands on the disk and every destination was printed
AllWritten ==
    /\ \A k \in 1..Len(pkgs) : \A fpath \in DOMAIN pkgs[k].Files :
           [path |-> fpath, file |-> pkgs[k].Files[fpath]] \in disk
    /\ gen.out = [k \in 1..Len(pkgs) |-> pkgs[k].Path]

\* the verification loop looks at a package only after Write has ended for every package;
\* it type-checks modified packages only and passes over unmodified ones only
VerifyAfterWrites ==
    \A i \in 1..Len(hist.events) :
        LET what == hist.events[i][1]
            k == hist.events[i][2]
        IN what \in {"verify", "skip"} =>
               /\ gen.verify
               /\ \A j \in 1..Len(pkgs) : Earlier("write", j, i)
               /\ pkgs[k].modified <=> what = "verify"
               /\ ~Earlier("verify", k, i) /\ ~Earlier("skip", k, i)

\* C21 as claimed: when GeneratePackages with verify = true has returned after a
\* successful translation, the type check was run for exactly the modified packages,
\* each time after Write had ended for every package; when it returned a verification
\* error all files are written.
C21_VerifiesExactlyModified ==
    /\ VerifyAfterWrites
    /\ (gen.pc = "done" /\ gen.verify /\ TranslatedOK) =>
           /\ Verified = ModifiedPkgs
           /\ gen.ret = VerifyError => AllWritten

\* C21 as amended: the verification loop ends at the first package whose type check
\* fails. The type check is run for no unmodified package and only after Write has ended
\* for every package; when GeneratePackages returns nil it was run for every modified
\* package; when a check fails GeneratePackages returns the error with all files written,
\* and the modified packages after the failing one are not checked.
C21_VerifiesModifiedUntilFailure ==
    /\ VerifyAfterWrites
    /\ (gen.pc = "done" /\ TranslatedOK /\ ~gen.verify) =>
           (Verified = {} /\ Skipped = {} /\ gen.ret = NoError)
    /\ (gen.pc = "done" /\ gen.verify /\ TranslatedOK) =>
           /\ gen.ret \in {NoError, VerifyError}
           /\ gen.ret = NoError =>
                  /\ Verified = ModifiedPkgs
                  /\ Skipped = (1..Len(pkgs)) \ ModifiedPkgs
                  /\ \A k \in ModifiedPkgs : pkgs[k].Types
           /\ gen.ret = VerifyError =>
                  /\ AllWritten
                  /\ Last(hist.events)[1] = "verify"
                  /\ LET k == Last(hist.events)[2]
                     IN /\ ~pkgs[k].Types
                        /\ Verified = {j \in ModifiedPkgs : j <= k}
                        /\ Skipped = {j \in 1..k : ~pkgs[j].modified}

\* GeneratePackages has returned the verification error of the second of three packages:
\* the first one is unmodified and was passed over, the third one is modified and was
\* not checked, and the files of all three are written
C21_Witness ==
    /\ gen.pc = "done"
    /\ gen.ret = VerifyError
    /\ Len(pkgs) = 3
    /\ ModifiedPkgs = {2, 3}
    /\ Verified = {2}
    /\ Skipped = {1}
    /\ AllWritten

\* ------------------------------------------------------------- claims on outDirPath
\* the elements of an absolute clean path
Elems(path) == IF path = <<Slash>> THEN <<>> ELSE Split(Tail(path))

\* the number of leading elements two paths share
RECURSIVE Shared(_, _)
Shared(a, b) ==
    IF a = <<>> \/ b = <<>> \/ a[1] # b[1] THEN 0 ELSE 1 + Shared(Tail(a), Tail(b))

\* O joined with the path of P relative to the deepest directory that is an
\* ancestor-or-self of both, path elements compared whole
MirroredPath(O, P) ==
    LET n == Shared(Elems(O), Elems(P))
    IN <<Slash>> \o Unsplit(Elems(O) \o SubSeq(Elems(P), n + 1, Len(Elems(P))))

\* C22: for an absolute package directory P and an absolute output directory O,
\* outDirPath(P) is O joined with the path of P relative to the deepest directory that is
\* an ancestor-or-self of both O and P, path elements compared whole; the loop ends after
\* at most as many passes as O has elements.
C22_OutDirPathMirrorsInput ==
    /\ gen.n <= Len(Elems(gen.OutDir))
    /\ gen.pc = "ret" =>
           /\ gen.ret = outDirPath(gen.OutDir, gen.inpath)
           /\ gen.ret = MirroredPath(gen.OutDir, gen.inpath)

\* ------------------------------------------------------------- claims on function frames
\* the function node that is the innermost one around block b
EnclosingFunc(b) == IF LitBody(b) THEN FuncLit ELSE FuncDecl

\* C23: the function frame of a translation point is the innermost function
\* declaration or function literal that lexically contains the try call, which is the
\* top of the funcs stack while the walk is in the block of the call; a point is
\* recorded only when the result list of that frame ends with error, and the guard
\* made for the point returns one expression per result of that frame, built from
\* that frame's result list and ending with the error identifier (a literal that
\* returns only error gives a guard that returns the error identifier alone); after
\* the literal has ended the points of the function have the function as frame.
C23_FrameIsInnermostFunction ==
    /\ (pc = "pass1" /\ walk # <<>> /\ tce.err = NoErr) =>
           /\ tce.funcs # <<>>
           /\ top(tce.funcs) = EnclosingFunc(top(walk).node)
    /\ \A b \in BlockIds : \A i \in 1..Len(Points(b)) :
           LET p == Points(b)[i]
               fl == EnclosingResults(b)
           IN /\ p.fun = EnclosingFunc(b)
              /\ fl # <<>>
              /\ Last(fl).type = "error"
              /\ Applied(p) =>
                     LET g == Now(b, p.guard)
                     IN /\ g.ret = RetVals(fl, g.cond)
                        /\ Len(g.ret) = Len(SignatureResults(fl))
                        /\ Last(g.ret) = Ident(g.cond)
                        /\ g.cond = "err" \/ IsErrName(g.cond)

\* a function returning (int, error) holds a literal returning only error; the try
\* call of the literal has a guard that returns the error alone, the try call that
\* follows the literal in the function has a guard that returns 0 and the error
C23_Witness ==
    /\ pc = "done"
    /\ result = "nil"
    /\ funcResults = DefaultResults
    /\ LitBody(ChildBlk)
    /\ EnclosingResults(ChildBlk) = <<Field(0, "error")>>
    /\ \E i \in 1..Len(Points(ChildBlk)) :
           LET p == Points(ChildBlk)[i]
           IN /\ p.fun = FuncLit
              /\ Applied(p)
              /\ Now(ChildBlk, p.guard).ret = <<Ident(Now(ChildBlk, p.guard).cond)>>
    /\ \E i \in 1..Len(Points(RootBlk)) :
           LET p == Points(RootBlk)[i]
           IN /\ p.fun = FuncDecl
              /\ Applied(p)
              /\ PosOf(orig[RootBlk], p.node) > (CHOOSE k \in 1..Len(orig[RootBlk]) : orig[RootBlk][k].kind = "GoStmt")
              /\ Now(RootBlk, p.guard).ret = <<BasicLit("INT", "0"), Ident(Now(RootBlk, p.guard).cond)>>

\* ------------------------------------------------------------- claims on the order of the files
\* the visitor as translatePackage makes it, on the package as parsed
Parsed ==
    [tce |-> [err |-> NoErr, roots |-> <<>>, parentBlk |-> NilBlk, currentBlk |-> NilBlk,
              blkIndex |-> 0, varID |-> 0, parents |-> <<"Package", "File">>, funcs |-> <<>>,
              numTrans |-> 0],
     tree |-> [b \in BlockIds |-> NoTree],
     stmts |-> orig,
     nextId |-> 0]

\* the error of the walk that takes the file of the declarations first
DeclsFirstErr == WalkDecls(Parsed, 1).tce.err

\* C24: the outcome of translatePackage is the same for every order in which the walk
\* visits the files of the package: when the walk that takes the file of the
\* declarations first ends with an error (message and position) in that file, every
\* walk of the package ends with that error and translatePackage returns it.
C24_OutcomeSameInEveryOrder ==
    (pc = "done" /\ DeclsFirstErr # NoErr) =>
        /\ tce.err = DeclsFirstErr
        /\ result = DeclsFirstErr.msg

\* ------------------------------------------------------------- claims on the stacks of phase 1
\* the nodes Visit pushes on its way from the statement outer down to the block it holds
ChainOf(outer) == IF outer = "GoStmt" THEN <<"GoStmt", "CallExpr", FuncLit>> ELSE <<outer>>

\* the parents stack that holds one entry for every push of Visit and visitBlockNode
\* on the way to the innermost active block, and no other
RECURSIVE ParentsOf(_)
ParentsOf(w) ==
    IF w = <<>> THEN <<"Package", "File">>
    ELSE ParentsOf(Front(w)) \o ChainOf(Last(w).outer) \o <<"BlockStmt">>

\* the funcs stack that holds the functions around the innermost active block
RECURSIVE FuncsOf(_)
FuncsOf(w) ==
    IF w = <<>> THEN <<>>
    ELSE FuncsOf(Front(w)) \o SelectSeq(ChainOf(Last(w).outer), LAMBDA n : n \in {FuncDecl, FuncLit})

\* C25: after a walk of phase 1 that ended without error the parents stack and the
\* funcs stack are empty and currentBlk and parentBlk are nil, so assertPostCondition
\* does not panic; while the walk goes on without error the two stacks hold exactly
\* the entries pushed on the way to the innermost active block, one per push, so
\* every pop and every top finds its entry and every push is undone by one pop.
C25_StacksBalanced ==
    /\ (Walked /\ tce.err = NoErr) => assertPostCondition
    /\ pc = "panic" => nci.blk # NilBlk
    /\ (pc = "pass1" /\ tce.err = NoErr) =>
           /\ walk # <<>>
           /\ tce.parents = ParentsOf(walk)
           /\ tce.funcs = FuncsOf(walk)
           /\ tce.funcs # <<>>
           /\ tce.currentBlk = Last(walk).node
           /\ tce.parentBlk = IF Len(walk) > 1 THEN walk[Len(walk) - 1].node ELSE NilBlk

\* the walk of a function that holds a function literal has ended without error after
\* it recorded a point in the literal and one in the function
C25_Witness ==
    /\ pc = "walked"
    /\ tce.err = NoErr
    /\ LitBody(ChildBlk)
    /\ tree[ChildBlk].made
    /\ Points(ChildBlk) # <<>>
    /\ Points(RootBlk) # <<>>
    /\ tce.parents = <<>>
    /\ tce.funcs = <<>>

\* ------------------------------------------------------------- claims on the block indices
\* phase 1 has ended without error and phase 2 has not begun
Phase1Clean == pc \in {"walked", "typecheck"} /\ tce.err = NoErr

\* C26: at the end of an error-free phase 1 the points of every block stand in the
\* order of non-decreasing blockIndex, and the blockIndex of a point is the index, in
\* the statement list of its block as it stands then, of the statement that holds
\* the host node of the point; also with a nested block walked between two points of
\* a block and with a statement put into the block by phase 1.
C26_PointsOrderedByBlockIndex ==
    Phase1Clean =>
        \A b \in BlockIds :
            /\ \A i, j \in 1..Len(Points(b)) :
                   i < j => Points(b)[i].blockIndex <= Points(b)[j].blockIndex
            /\ \A i \in 1..Len(Points(b)) :
                   LET p == Points(b)[i]
                   IN /\ p.blockIndex \in 0..(Len(stmts[b]) - 1)
                      /\ stmts[b][p.blockIndex + 1].id = p.node

\* phase 1 has ended without error on a function with a point before and a point
\* after a nested block that holds a point itself, the later one on a statement
\* phase 1 put into the block
C26_Witness ==
    /\ Phase1Clean
    /\ Points(ChildBlk) # <<>>
    /\ \E i, j \in 1..Len(Points(RootBlk)) : \E w \in 1..Len(stmts[RootBlk]) :
           /\ stmts[RootBlk][w].child = ChildBlk
           /\ Points(RootBlk)[i].blockIndex + 1 < w
           /\ w < Points(RootBlk)[j].blockIndex + 1
           /\ ~Has(orig[RootBlk], Points(RootBlk)[j].node)

\* ------------------------------------------------------------- claims on the offset of phase 2
\* phase 2 stands in the loop over the points of block nci.blk
InBlock == pc = "pass2" /\ nci.next > 0

\* the point the loop of nci.block applies next
NextPoint == Points(nci.blk)[nci.next]

\* phase 2 panicked on an index of insertStmtAt or removeStmtAt: the result list of
\* the function of the point gives return values
IndexPanic ==
    /\ Phase2Aborted
    /\ RetVals(FuncTypeResults(stmts, NextPoint.fun), "err")[1].op # "panic"

\* the offset is the growth of the list of the block since phase 2 entered it
OffsetIsGrowth == InBlock => nci.offset = Len(stmts[nci.blk]) - Len(pre[nci.blk])

\* the statement at blockIndex + offset is the host of the point applied next
HostAtOffset ==
    (InBlock /\ nci.next <= Len(Points(nci.blk))) =>
        LET idx == NextPoint.blockIndex + nci.offset
        IN /\ idx \in 0..(Len(stmts[nci.blk]) - 1)
           /\ stmts[nci.blk][idx + 1].id = NextPoint.node

\* C27 as claimed: while phase 2 processes a block the offset is 0 at the entry and is
\* always the length of the statement list of the block minus its length at the
\* entry; before a point is applied the statement at blockIndex + offset is the host
\* statement of the point; no index of insertStmtAt or removeStmtAt is out of the
\* bounds of the list.
C27_OffsetLocatesHost ==
    /\ (InBlock /\ nci.next = 1) => nci.offset = 0
    /\ OffsetIsGrowth
    /\ HostAtOffset
    /\ ~IndexPanic

\* ------------------------------------------------------------- claims on the order of phase 2
\* the numbers of the points of block b that phase 2 has applied
AppliedIn(b) == {i \in 1..Len(Points(b)) : Applied(Points(b)[i])}

\* the points applied so far are the first ones of their blocks, those of the block
\* under way are the ones the loop has passed, the points of a block are all applied
\* when phase 2 is in a child of the block, and all points are applied at the end
AppliedInOrder ==
    /\ \A b \in BlockIds : \E n \in 0..Len(Points(b)) : AppliedIn(b) = 1..n
    /\ InBlock => AppliedIn(nci.blk) = 1..(nci.next - 1)
    /\ \A c \in BlockIds :
           (tree[c].parent # NilBlk /\ (AppliedIn(c) # {} \/ (InBlock /\ nci.blk = c)))
               => AppliedIn(tree[c].parent) = 1..Len(Points(tree[c].parent))
    /\ (pc = "done" /\ modified) => \A b \in BlockIds : AppliedIn(b) = 1..Len(Points(b))
    /\ \A b, c \in BlockIds : \A i \in AppliedIn(b), j \in AppliedIn(c) :
           /\ Cardinality({k \in 1..Len(stmts[b]) : stmts[b][k].id = Points(b)[i].guard}) = 1
           /\ (b # c \/ i # j) => Points(b)[i].guard # Points(c)[j].guard

\* a step of phase 2 applies at most the point the loop stands at, leaves the applied
\* points as they are, and changes the statement list of the block under way only
AppliesNextOnly ==
    pc = "pass2" =>
        /\ \A b \in BlockIds :
               /\ Len(Points(b)') = Len(Points(b))
               /\ \A i \in AppliedIn(b) : Points(b)'[i] = Points(b)[i]
               /\ \A i \in AppliedIn(b)' \ AppliedIn(b) : InBlock /\ b = nci.blk /\ i = nci.next
        /\ \A b \in ListIds : stmts'[b] # stmts[b] => (InBlock /\ b = nci.blk)

ErrNode == tce.err.pos[1]

ErrList == ListOf(stmts, ErrNode)

\* the place in the parsed list b of the statement the walk stood at when the error
\* was set: the statement of the error, or the compound assignment in front of which
\* phase 1 had put the statement of the error
ErrPlace(b) ==
    IF Has(orig[b], ErrNode) THEN PosOf(orig[b], ErrNode)
    ELSE PosOf(orig[b], stmts[b][PosOf(stmts[b], ErrNode) + 1].id)

\* the statements that follow place k of the parsed list b are as parsed, in the
\* order as parsed at the end of the list, and no point is recorded for them
Untouched(b, k) ==
    /\ Len(stmts[b]) >= Len(orig[b]) - k
    /\ \A i \in (k + 1)..Len(orig[b]) :
           /\ stmts[b][Len(stmts[b]) - (Len(orig[b]) - i)] = orig[b][i]
           /\ \A n \in 1..Len(Points(b)) : Points(b)[n].node # orig[b][i].id

\* what phase 1 has left alone when its error is set: the specs that follow the spec
\* of the error, the statements that follow its statement, the statements that
\* follow the nested block it stands in, the blocks the walk has not entered and the
\* declarations at file level
RestOfWalkUntouched ==
    tce.err # NoErr =>
        /\ Untouched(ErrList, ErrPlace(ErrList))
        /\ Has(orig[ErrList], ErrNode) =>
               \A j \in (tce.err.pos[2] + 1)..Len(Now(ErrList, ErrNode).specs) :
                   /\ Now(ErrList, ErrNode).specs[j] = orig[ErrList][ErrPlace(ErrList)].specs[j]
                   /\ \A n \in 1..Len(Points(ErrList)) :
                          ~(Points(ErrList)[n].node = ErrNode /\ Points(ErrList)[n].spec = j)
        /\ ErrList = ChildBlk =>
               Untouched(RootBlk, CHOOSE k \in 1..Len(orig[RootBlk]) : orig[RootBlk][k].child = ChildBlk)
        /\ \A b \in BlockIds : ~tree[b].made => (stmts[b] = orig[b] /\ Points(b) = <<>>)
        /\ stmts[FileLevel] = orig[FileLevel]
        /\ tce.numTrans = NumPoints

\* the steps that follow the error keep it, the AST and the points, and lead to the
\* return of that error with no type check, no phase 2 and no modified flag
ErrorIsFinal ==
    tce.err # NoErr =>
        /\ tce.err' = tce.err
        /\ stmts' = stmts
        /\ tree' = tree
        /\ nextId' = nextId
        /\ pc' \in {"pass1", "walked", "done"}
        /\ ~modified'
        /\ pc' = "done" => result' = tce.err.msg

\* C29: once phase 1 has set tce.err the error is never overwritten, no further
\* translation point is recorded, no further AST node is rewritten and no statement
\* is inserted for the rest of the walk; translatePackage returns that error without
\* type check, phase 2 or the modified flag.
C29_FirstErrorEndsPhase1 == [][RestOfWalkUntouched' /\ ErrorIsFinal]_vars

\* translatePackage has returned the error of a try call in a function literal that
\* returns nothing, met after one point was recorded, while a try call follows the
\* literal in the function
C29_Witness ==
    /\ pc = "done"
    /\ tce.err # NoErr
    /\ result = tce.err.msg
    /\ ErrList = ChildBlk
    /\ LitBody(ChildBlk)
    /\ tce.numTrans = 1
    /\ stmts # orig
    /\ \E i \in 1..Len(orig[RootBlk]) : \E j \in 1..Len(orig[RootBlk][i].specs) :
           /\ i > (CHOOSE k \in 1..Len(orig[RootBlk]) : orig[RootBlk][k].child = ChildBlk)
           /\ orig[RootBlk][i].specs[j].values # <<>>
           /\ IsTryCall(orig[RootBlk][i].specs[j].values[1])
           /\ stmts[RootBlk][Len(stmts[RootBlk])] = orig[RootBlk][i]

\* ------------------------------------------------------------- claims on the cache of the import fixer
\* the fixImport calls that came to resolveImportPath
Resolving == {i \in 1..Len(hist.calls) : hist.calls[i].path # <<>>}

\* C30: the cache of resolved directories is transparent: every call of
\* resolveImportPath(path, pkgDir) returns what the build context returns for path
\* from pkgDir without a cache, also when the same import string is resolved from
\* two packages with different directories; a failed resolution puts no entry into
\* the cache.
C30_CacheIsTransparent ==
    gen # <<>> =>
        /\ \A i \in Resolving :
               LET c == hist.calls[i]
                   p == CtxImport(env, c.path, c.pkgDir)
               IN /\ c.ok = p.ok
                  /\ c.dir = p.dir
        /\ \A path \in DOMAIN fixer.pathToDir :
               \E i \in Resolving : /\ hist.calls[i].path = path
                                    /\ hist.calls[i].ok
                                    /\ hist.calls[i].dir = fixer.pathToDir[path]
====
